---- MODULE Spec2Model ----
(***************************************************************************)
(* Longtail AI Venture Studio: the Stripe status classifier, the billing   *)
(* snapshot fetcher, and the handlers that write the Supabase store (the   *)
(* tracking endpoints, the Stripe webhook receiver and the two sync        *)
(* routes), modelled from the TypeScript sources and the SQL migrations.   *)
(***************************************************************************)
EXTENDS Integers, Sequences, FiniteSets, Bags, TLC

\* ------------------------------------------------------------------------
\* JavaScript values
\* ------------------------------------------------------------------------
\* null / undefined and the empty string are the falsy values a string-typed
\* field can take; an optional boolean is "true", "false" or UNSET.
NULL == "null"
UNSET == "undefined"
Falsy(x) == x \in {NULL, UNSET, ""}

\* Texts that the code searches or copies (error messages, details) are
\* sequences of words; <<>> is the empty string and <<UNSET>> an absent text.
NoText == <<UNSET>>
FalsyText(t) == t \in {NoText, <<>>}

\* String.prototype.includes on texts modelled as sequences of words: the
\* needle occurs as a contiguous run of the haystack.
Includes(hay, needle) ==
  \E i \in 0..Len(hay) :
    /\ i + Len(needle) <= Len(hay)
    /\ \A j \in 1..Len(needle) : hay[i + j] = needle[j]

\* ------------------------------------------------------------------------
\* lib/stripe-status.ts
\* ------------------------------------------------------------------------
StatusNames == {"ready", "needs_stripe_key", "needs_webhook_secret",
                "needs_env_vars", "no_products", "no_data", "error"}

MkStatus(s, m, d) == [status |-> s, message |-> m, details |-> d]

\* the classifier with the webhook-secret test and the error test exchanged
getStripeStatusErrorFirst(config) ==
  IF Falsy(config.stripeSecretKey)
    THEN MkStatus("needs_stripe_key", "Needs Stripe API Key",
                  <<"Add STRIPE_SECRET_KEY in venture settings">>)
  ELSE IF ~FalsyText(config.error)
    THEN MkStatus("error", "Stripe Connection Error", config.error)
  ELSE IF Falsy(config.stripeWebhookSecret)
    THEN MkStatus("needs_webhook_secret", "Needs Webhook Secret",
                  <<"Add STRIPE_WEBHOOK_SECRET for real-time sync">>)
  ELSE IF config.hasProducts = "false"
    THEN MkStatus("no_products", "No Products in Stripe",
                  <<"Create products and prices in Stripe Dashboard">>)
  ELSE IF config.hasSubscriptions = "false"
    THEN MkStatus("no_data", "No Subscription Data",
                  <<"No customers or subscriptions found yet">>)
  ELSE MkStatus("ready", "Connected", <<"Stripe is configured and syncing">>)

getStripeStatus(config) ==
  IF Falsy(config.stripeSecretKey)
    THEN MkStatus("needs_stripe_key", "Needs Stripe API Key",
                  <<"Add STRIPE_SECRET_KEY in venture settings">>)
  ELSE IF Falsy(config.stripeWebhookSecret)
    THEN MkStatus("needs_webhook_secret", "Needs Webhook Secret",
                  <<"Add STRIPE_WEBHOOK_SECRET for real-time sync">>)
  ELSE IF ~FalsyText(config.error)
    THEN MkStatus("error", "Stripe Connection Error", config.error)
  ELSE IF config.hasProducts = "false"
    THEN MkStatus("no_products", "No Products in Stripe",
                  <<"Create products and prices in Stripe Dashboard">>)
  ELSE IF config.hasSubscriptions = "false"
    THEN MkStatus("no_data", "No Subscription Data",
                  <<"No customers or subscriptions found yet">>)
  ELSE MkStatus("ready", "Connected", <<"Stripe is configured and syncing">>)

\* VentureStripeConfig: every field optional.  The error text is absent, the
\* empty text (falsy in JavaScript) or a non-empty text.
SecretKeyValues == {NULL, "", "sk_test_1"}
WebhookSecretValues == {NULL, "", "whsec_1"}
OptBool == {"true", "false", UNSET}
ErrorTexts == {NoText, <<>>, <<"connection", "refused">>}

VentureStripeConfig ==
  [stripeSecretKey : SecretKeyValues,
   stripeWebhookSecret : WebhookSecretValues,
   hasProducts : OptBool,
   hasSubscriptions : OptBool,
   error : ErrorTexts]

VARIABLES
  cConfig,    \* the config handed to getStripeStatus
  cResult,    \* its return value, Pending before the call
  cpc         \* "call" before the call, "done" after it

cvars == <<cConfig, cResult, cpc>>

\* ------------------------------------------------------------------------
\* lib/stripe-data.ts : fetchVentureStripeData
\* ------------------------------------------------------------------------
\* Bounds of the remote account seen by one invocation.
MaxRemote == 1
MaxCharges == 2

\* Messages of the errors a Stripe call can reject with.
InvalidKeySignature == <<"Invalid", "API", "Key">>
ErrorMessages == {<<"Invalid", "API", "Key", "provided">>,
                  <<"API", "Key", "Invalid">>,
                  <<"No", "such", "customer">>}

\* JavaScript numbers are kept as exact fractions [num, den] in lowest
\* terms with den > 0 (the rounding error of IEEE doubles is left out).
Rat(n, d) ==
  LET RECURSIVE gcd(_, _)
      gcd(a, b) == IF b = 0 THEN a ELSE gcd(b, a % b)
      g == gcd(IF n < 0 THEN -n ELSE n, d)
  IN [num |-> n \div g, den |-> d \div g]
\* a + b, and a / b with b > 0
Plus(a, b) == Rat(a.num * b.den + b.num * a.den, a.den * b.den)
Over(a, b) == Rat(a.num * b.den, a.den * b.num)

TARGET_ARR == 1000000

\* A Stripe price object: unit_amount in cents (0 also stands for null, as
\* every read is `unit_amount || 0`), interval of price.recurring, NULL
\* when the price is not recurring.
StripePrice(interval) ==
  CASE interval = "month" ->
         [id |-> "price_m", unit_amount |-> 5000, interval |-> interval]
    [] interval = "year" ->
         [id |-> "price_y", unit_amount |-> 120000, interval |-> interval]
    [] interval = "week" ->
         [id |-> "price_w", unit_amount |-> 2500, interval |-> interval]
    [] OTHER ->
         [id |-> "price_o", unit_amount |-> 900, interval |-> NULL]
PriceKinds == {StripePrice(i) : i \in {"month", "year", "week", NULL}}
\* an active subscription is the sequence of the prices of its line items
SubKinds == {<<StripePrice("month")>>, <<StripePrice("year")>>,
             <<StripePrice("week")>>,
             <<StripePrice("month"), StripePrice("year")>>}

ChargeKinds == [amount : {50000, 1999}, paid : BOOLEAN, refunded : BOOLEAN]

RECURSIVE SumCharged(_)
\* the sum of all charges, refunded and unpaid ones too
SumCharged(cs) ==
  IF cs = <<>> THEN Rat(0, 1)
  ELSE Plus(Rat(Head(cs).amount, 100), SumCharged(Tail(cs)))

RECURSIVE SumPaid(_)
\* lines 130-132: charges.filter(c => c.paid && !c.refunded)
\*                       .reduce((sum, c) => sum + c.amount / 100, 0)
SumPaid(cs) ==
  IF cs = <<>> THEN Rat(0, 1)
  ELSE LET rest == SumPaid(Tail(cs))
       IN IF Head(cs).paid /\ ~Head(cs).refunded
            THEN Plus(Rat(Head(cs).amount, 100), rest)
            ELSE rest

RECURSIVE LineItems(_)
\* the items visited by the two loops of lines 74-75, in order
LineItems(subs) ==
  IF subs = <<>> THEN <<>> ELSE Head(subs) \o LineItems(Tail(subs))

\* lines 77-85: price.unit_amount || 0, normalized to a month
\* the same with every interval taken as a month
MonthlyAmountUnchanged(price) == Rat(price.unit_amount, 1)
MonthlyAmount(price) ==
  IF price.interval = "year" THEN Rat(price.unit_amount, 12)
  ELSE IF price.interval = "week" THEN Rat(price.unit_amount * 4, 1)
  ELSE Rat(price.unit_amount, 1)

RECURSIVE Mrr(_)
\* line 87 over all items: mrr += monthlyAmount / 100
Mrr(items) ==
  IF items = <<>> THEN Rat(0, 1)
  ELSE Plus(Over(MonthlyAmount(Head(items)), Rat(100, 1)),
            Mrr(Tail(items)))

\* lines 96-113: the recurring prices, each with its monthly price and the
\* number of items on it (planCounts), sorted by that number, descending
\* (Array.prototype.sort is stable).  The product's name is left out.
Plans(prs, items) ==
  LET IsRecurring(p) == p.interval # NULL
      rec == SelectSeq(prs, IsRecurring)
      n == Len(rec)
      cnt(i) == Cardinality({k \in DOMAIN items : items[k].id = rec[i].id})
      row(i) ==
        [id |-> rec[i].id,
         price |-> IF rec[i].interval = "year"
                     THEN Over(Rat(rec[i].unit_amount, 100), Rat(12, 1))
                     ELSE Rat(rec[i].unit_amount, 100),
         interval |-> rec[i].interval,
         activeCount |-> cnt(i)]
      rank(i) == Cardinality({j \in 1..n : cnt(j) > cnt(i)})
                 + Cardinality({j \in 1..(i - 1) : cnt(j) = cnt(i)}) + 1
  IN [k \in 1..n |-> row(CHOOSE i \in 1..n : rank(i) = k)]

\* lines 116-121; SumPrice is plans.reduce((sum, p) => sum + p.price, 0)
AvgPlanPrice(subs, mrr, plns) ==
  LET RECURSIVE SumPrice(_)
      SumPrice(ps) ==
        IF ps = <<>> THEN Rat(0, 1)
        ELSE Plus(Head(ps).price, SumPrice(Tail(ps)))
  IN IF Len(subs) > 0 THEN Over(mrr, Rat(Len(subs), 1))
     ELSE IF Len(plns) > 0 THEN Over(SumPrice(plns), Rat(Len(plns), 1))
     ELSE Rat(0, 1)

\* lines 124-126, Math.ceil(x) being -floor(-x)
SubscribersToTarget(avg) ==
  IF avg.num > 0
    THEN LET x == Over(Over(Rat(TARGET_ARR, 1), Rat(12, 1)), avg)
         IN -((-x.num) \div x.den)
    ELSE 0

\* lines 140-143
ChurnRate(active, churned) ==
  IF active + churned > 0
    THEN Over(Rat(churned * 100, 1), Rat(active + churned, 1))
    ELSE Rat(0, 1)

\* lines 171-172: Math.round(x * scale) / scale, Math.round(y) being
\* floor(y + 1/2)
RoundTo(x, scale) ==
  Rat((2 * x.num * scale + x.den) \div (2 * x.den), scale)

VARIABLES
  fKey,       \* argument stripeSecretKey
  fWhsec,     \* argument stripeWebhookSecret
  fRemote,    \* what the provider holds: counts of active products,
              \* active subscriptions, customers, cancelled subscriptions,
              \* and the list of charges
  fpc,        \* "start", "charges", "cancelled", "done"
  fCalls,     \* number of provider calls issued by the invocation
  fThrown,    \* message of the error caught, NoText if none
  fResult     \* the returned {status, data}, Pending while running

fvars == <<fKey, fWhsec, fRemote, fpc, fCalls, fThrown, fResult>>

\* ------------------------------------------------------------------------
\* The Supabase store, the requests in flight and the Stripe accounts
\* ------------------------------------------------------------------------
VARIABLES
  ventures,       \* slug -> [stripe_secret_key, stripe_webhook_secret]
  signups,        \* sequence of rows; a row's id is its position
  revenue,        \* bag of rows
  events,         \* bag of rows
  plans,          \* set of rows, primary key id
  prices,         \* set of rows, primary key id
  subscriptions,  \* set of rows, primary key id
  remote,         \* slug -> the Stripe account behind the venture's key
  trk,            \* slot -> a signup request of /api/track between its
                  \* existence check and its write
  hook,           \* the webhook delivery being processed
  lastReq,        \* the request completed last, with its response
  nOps,           \* requests started
  nDone,          \* requests completed
  limit           \* requests a behaviour may start

tables == <<signups, revenue, events, plans, prices, subscriptions>>
svars == <<ventures, tables, remote, trk, hook, lastReq, nOps, nDone, limit>>

vars == <<cvars, fvars, svars>>

fConfig == [stripeSecretKey |-> fKey, stripeWebhookSecret |-> fWhsec,
            hasProducts |-> UNSET, hasSubscriptions |-> UNSET, error |-> NoText]

\* a value not yet returned, and the null of the data field
Pending == [pending |-> TRUE]
NullData == [isNull |-> TRUE]

\* line 42, if (!stripeSecretKey)
\* the test written as a comparison with null only
KeyMissingNullOnly(key) == key = NULL
KeyMissing(key) == Falsy(key)

\* the catch block, lines 178-201
\* a catch block that reports every failure as an invalid key
CatchResultAlwaysInvalid(msg) ==
  [status |-> MkStatus("error", "Invalid Stripe Key",
                       <<"The API key is invalid or expired">>),
   data |-> NullData]

CatchResult(msg) ==
  IF Includes(msg, InvalidKeySignature)
    THEN [status |-> MkStatus("error", "Invalid Stripe Key",
                              <<"The API key is invalid or expired">>),
          data |-> NullData]
    ELSE [status |-> MkStatus("error", "Stripe Error", msg),
          data |-> NullData]

\* a provider call rejects with msg: control moves to the catch block
FetchCatch(msg, calls) ==
  /\ fThrown' = msg
  /\ fResult' = CatchResult(msg)
  /\ fCalls' = fCalls + calls
  /\ fpc' = "done"

\* lines 36-68: the key test, then Promise.all of the four list calls
FetchStart ==
  /\ fpc = "start"
  /\ UNCHANGED <<fKey, fWhsec, fRemote>>
  /\ IF KeyMissing(fKey)
       THEN /\ fResult' = [status |-> getStripeStatus(fConfig),
                           data |-> NullData]
            /\ fpc' = "done"
            /\ UNCHANGED <<fCalls, fThrown>>
       ELSE \/ \E msg \in ErrorMessages : FetchCatch(msg, 4)
            \/ /\ fCalls' = fCalls + 4
               /\ UNCHANGED fThrown
               /\ IF fRemote.products = 0
                    THEN /\ fResult' =
                              [status |-> getStripeStatus(
                                 [fConfig EXCEPT !.hasProducts = "false"]),
                               data |-> NullData]
                         /\ fpc' = "done"
                    ELSE /\ fpc' = "charges"
                         /\ UNCHANGED fResult

\* line 129: stripe.charges.list
FetchCharges ==
  /\ fpc = "charges"
  /\ UNCHANGED <<fKey, fWhsec, fRemote>>
  /\ \/ \E msg \in ErrorMessages : FetchCatch(msg, 1)
     \/ /\ fCalls' = fCalls + 1
        /\ fpc' = "cancelled"
        /\ UNCHANGED <<fThrown, fResult>>

\* lines 70-126 and 130-143: the figures computed from the lists fetched
Figures(r) ==
  LET items == LineItems(r.subscriptions)
      mrr == Mrr(items)
      plns == Plans(r.prices, items)
      avg == AvgPlanPrice(r.subscriptions, mrr, plns)
  IN [totalRevenue |-> SumPaid(r.charges),
      mrr |-> mrr,
      activeSubscriptions |-> Len(r.subscriptions),
      totalCustomers |-> r.customers,
      churnedCustomers |-> r.cancelled,
      churnRate |-> ChurnRate(Len(r.subscriptions), r.cancelled),
      avgPlanPrice |-> avg,
      subscribersToTarget |-> SubscribersToTarget(avg),
      plans |-> plns]

\* lines 146-176: the two returns that carry data
Snapshot(config, r) ==
  LET f == Figures(r)
  IN IF Len(r.subscriptions) = 0 /\ r.customers = 0
       THEN [status |-> getStripeStatus(
                          [config EXCEPT !.hasProducts = "true",
                                         !.hasSubscriptions = "false"]),
             data |-> [f EXCEPT !.mrr = Rat(0, 1),
                                !.activeSubscriptions = 0,
                                !.totalCustomers = 0,
                                !.churnedCustomers = 0,
                                !.churnRate = Rat(0, 1)]]
       ELSE [status |-> [status |-> "ready", message |-> "Connected"],
             data |-> [f EXCEPT !.churnRate = RoundTo(f.churnRate, 10),
                                !.avgPlanPrice =
                                   RoundTo(f.avgPlanPrice, 100)]]

\* lines 135-176: the cancelled subscriptions, then the two returns
FetchCancelled ==
  /\ fpc = "cancelled"
  /\ UNCHANGED <<fKey, fWhsec, fRemote>>
  /\ \/ \E msg \in ErrorMessages : FetchCatch(msg, 1)
     \/ /\ fCalls' = fCalls + 1
        /\ fpc' = "done"
        /\ UNCHANGED fThrown
        /\ fResult' = Snapshot(fConfig, fRemote)

\* what one invocation returns to its caller: thrown is the message of the
\* provider call that rejected, NoText when none did
fetchVentureStripeData(key, whsec, r, thrown) ==
  LET config == [stripeSecretKey |-> key, stripeWebhookSecret |-> whsec,
                 hasProducts |-> UNSET, hasSubscriptions |-> UNSET,
                 error |-> NoText]
  IN IF KeyMissing(key)
       THEN [status |-> getStripeStatus(config), data |-> NullData]
     ELSE IF thrown # NoText THEN CatchResult(thrown)
     ELSE IF r.products = 0
       THEN [status |-> getStripeStatus(
                          [config EXCEPT !.hasProducts = "false"]),
             data |-> NullData]
     ELSE Snapshot(config, r)

\* sequences over S of length at most n
SeqUpTo(S, n) == UNION {[1..k -> S] : k \in 0..n}

ChargeLists == SeqUpTo(ChargeKinds, MaxCharges)

\* what the provider returns to the calls of one invocation: the number of
\* active products, the active prices, the active subscriptions, the numbers
\* of customers and of cancelled subscriptions, and the charges
RemoteAccounts ==
  [products : 0..MaxRemote, prices : {<<StripePrice("month")>>},
   subscriptions :
     SeqUpTo({<<StripePrice("month")>>}, MaxRemote),
   customers : 0..MaxRemote, cancelled : 0..MaxRemote,
   charges : ChargeLists]

\* Bounds of the accounts whose figures are computed: mixed lists of
\* subscriptions and of prices, longer lists of one kind of subscription,
\* and the number of cancelled subscriptions.
MaxSubs == 2
MaxPrices == 2
MaxActive == 7
MaxCancelled == 3

MetricsAccounts ==
  [products : {1},
   prices : SeqUpTo(PriceKinds, MaxPrices),
   subscriptions :
     SeqUpTo(SubKinds, MaxSubs)
       \cup {[i \in 1..n |-> <<StripePrice("month")>>] : n \in 0..MaxActive},
   customers : 0..1, cancelled : 0..MaxCancelled,
   charges : {<<>>}]

FetchInit ==
  /\ fKey \in SecretKeyValues
  /\ fWhsec \in WebhookSecretValues
  /\ fRemote \in RemoteAccounts
  /\ fpc = "start" /\ fCalls = 0 /\ fThrown = NoText /\ fResult = Pending

FetchIdle ==
  /\ fKey = NULL /\ fWhsec = NULL
  /\ fRemote = [products |-> 0, prices |-> <<>>, subscriptions |-> <<>>,
                customers |-> 0, cancelled |-> 0, charges |-> <<>>]
  /\ fpc = "done" /\ fCalls = 0 /\ fThrown = NoText /\ fResult = Pending

ClassifyInit ==
  /\ cConfig \in VentureStripeConfig
  /\ cResult = Pending
  /\ cpc = "call"

ClassifyIdle ==
  /\ cConfig = fConfig
  /\ cResult = Pending
  /\ cpc = "done"

\* getStripeStatus(config)
Classify ==
  /\ cpc = "call"
  /\ cResult' = getStripeStatus(cConfig)
  /\ cpc' = "done"
  /\ UNCHANGED cConfig

\* the next call, with any config
ClassifyAgain ==
  /\ cpc = "done"
  /\ cConfig' \in VentureStripeConfig
  /\ cResult' = Pending
  /\ cpc' = "call"

\* ------------------------------------------------------------------------
\* supabase/migrations: the constraints the store enforces
\* ------------------------------------------------------------------------
\* 001_initial_schema.sql: signups.plan, signups.status and revenue.type
\* carry CHECK constraints; signups has no UNIQUE (venture_id, email).
SignupPlanCheck == {"free", "starter", "pro", "enterprise", "custom"}
SignupStatusCheck == {"trial", "active", "churned", "paused"}
RevenueTypeCheck == {"subscription", "one-time", "refund", "upgrade",
                     "downgrade"}
RevenueColumns == {"id", "venture_id", "signup_id", "amount", "currency",
                   "type", "plan", "period_start", "period_end",
                   "stripe_payment_id", "stripe_subscription_id",
                   "metadata", "created_at"}
\* 002_stripe_migration.sql: plans, prices and subscriptions have a TEXT
\* primary key id without default, and no other unique column.
SubscriptionsColumns == {"id", "venture_id", "stripe_subscription_id",
                         "stripe_customer_id", "price_id", "status",
                         "current_period_start", "current_period_end",
                         "cancel_at_period_end", "canceled_at",
                         "trial_start", "trial_end", "created_at",
                         "updated_at"}
SignupsUniqueKeys == {"id"}
PlansUniqueKeys == {"id"}
PricesUniqueKeys == {"id"}
SubscriptionsUniqueKeys == {"id"}

\* a null uuid (signup ids are positions 1, 2, ...)
NoId == 0

\* an optional number of a request body: absent, or given with a value
Absent == [given |-> FALSE, value |-> 0]
Amt(n) == [given |-> TRUE, value |-> n]
TruthyAmt(a) == a.given /\ a.value # 0

\* x || d
OrElse(x, d) == IF Falsy(x) THEN d ELSE x

\* the row with the columns of patch overwritten
Patched(row, patch) ==
  [f \in DOMAIN row |-> IF f \in DOMAIN patch THEN patch[f] ELSE row[f]]

\* --- signups ------------------------------------------------------------
\* a table without the CHECK on status
SignupRowNoStatusCheck(r) ==
  /\ r.email \notin {NULL, UNSET}
  /\ r.plan = NULL \/ r.plan \in SignupPlanCheck

\* email NOT NULL, and the two CHECKs (a NULL passes a CHECK)
SignupRowOK(r) ==
  /\ r.email \notin {NULL, UNSET}
  /\ r.plan = NULL \/ r.plan \in SignupPlanCheck
  /\ r.status = NULL \/ r.status \in SignupStatusCheck

\* ids of the rows of venture v with email e
SignupIds(tbl, v, e) ==
  {i \in DOMAIN tbl : tbl[i].venture_id = v /\ tbl[i].email = e}

\* .select('id').eq('venture_id', v).eq('email', e).single(): the id when
\* exactly one row matches, and null (with an error the callers drop) when
\* none or several do
SignupSingle(tbl, v, e) ==
  IF Cardinality(SignupIds(tbl, v, e)) = 1
    THEN CHOOSE i \in SignupIds(tbl, v, e) : TRUE
    ELSE NoId

\* .insert(row): appended unless a constraint rejects it; the callers never
\* look at the error
SignupsInsert(tbl, r) == IF SignupRowOK(r) THEN Append(tbl, r) ELSE tbl

\* .update(patch) on the rows with an id in ids: one statement, which
\* changes nothing when a patched row violates a constraint
\* an update that leaves a churned row as it is
SignupsUpdateKeepChurned(tbl, ids, patch) ==
  [i \in DOMAIN tbl |->
     IF /\ i \in ids /\ tbl[i].status # "churned"
        /\ SignupRowOK(Patched(tbl[i], patch))
       THEN Patched(tbl[i], patch) ELSE tbl[i]]
SignupsUpdate(tbl, ids, patch) ==
  LET new == [i \in DOMAIN tbl |->
                IF i \in ids THEN Patched(tbl[i], patch) ELSE tbl[i]]
  IN IF \A i \in ids : SignupRowOK(new[i]) THEN new ELSE tbl

\* .upsert(row, {onConflict: 'venture_id,email'}): ON CONFLICT needs a
\* unique index on its columns; there is none, the statement fails
SignupsUpsert(tbl, r, onConflict) ==
  IF onConflict \notin SignupsUniqueKeys THEN tbl
  ELSE SignupsInsert(tbl, r)

\* --- revenue and events -------------------------------------------------
\* .insert(row) with the given payload columns: rejected when a column does
\* not exist, when the type fails its CHECK, or when signup_id references no
\* signup
RevenueInsert(bag, r, cols, sgn) ==
  IF /\ cols \subseteq RevenueColumns
     /\ r.type \in RevenueTypeCheck
     /\ r.signup_id = NoId \/ r.signup_id \in DOMAIN sgn
  THEN bag (+) SetToBag({r})
  ELSE bag

\* rows of the revenue table with the given stripe_payment_id
RevenueWithPayment(bag, pid) ==
  {r \in BagToSet(bag) : r.stripe_payment_id = pid}

\* .eq('stripe_payment_id', pid).single(): a row only when exactly one
\* row matches
RevenueSingleExists(bag, pid) ==
  /\ Cardinality(RevenueWithPayment(bag, pid)) = 1
  /\ \A r \in RevenueWithPayment(bag, pid) : CopiesIn(r, bag) = 1

Event(v, type, email, ref) ==
  [venture_id |-> v, type |-> type, email |-> email, ref |-> ref]

\* events.insert: type is the only NOT NULL column and is always given
\* an insert that keeps only the newest event
EventsOverwrite(bag, e) == SetToBag({e})
EventsInsert(bag, e) == bag (+) SetToBag({e})

\* --- plans, prices, subscriptions ---------------------------------------
\* .upsert(row, {onConflict}) into a table whose only unique column is the
\* primary key id: fails when onConflict names another column or the row
\* has no id; otherwise replaces the row with that id or inserts
KeyedUpsertOK(r, onConflict, uniqueKeys, ok) ==
  onConflict \in uniqueKeys /\ r.id # NULL /\ ok

KeyedUpsert(tbl, r, onConflict, uniqueKeys, ok) ==
  IF KeyedUpsertOK(r, onConflict, uniqueKeys, ok)
    THEN {x \in tbl : x.id # r.id} \cup {r}
    ELSE tbl

\* .select('id').eq(col, val).eq('venture_id', v).single() on prices/plans
KeyedSingle(tbl, col, val, v) ==
  LET m == {x \in tbl : x[col] = val /\ x.venture_id = v}
  IN IF Cardinality(m) = 1 THEN (CHOOSE x \in m : TRUE).id ELSE NULL

\* ------------------------------------------------------------------------
\* Ventures and the Stripe accounts behind their keys
\* ------------------------------------------------------------------------
VentureSlugs == {"a", "b"}
UnknownSlug == "zz"

\* the venture row fetched by .eq('slug', slug).single(): the id (the slug
\* stands for it) or null
VentureBySlug(vs, slug) == IF slug \in DOMAIN vs THEN slug ELSE NULL

Product(id) == [id |-> id]
Price(id, product) == [id |-> id, product |-> product]
Subscription(id, price, email, status) ==
  [id |-> id, price |-> price, email |-> email, status |-> status]
Charge(id, status, amount, email) ==
  [id |-> id, status |-> status, amount |-> amount, email |-> email]

\* active products, active prices, subscriptions and recent charges as the
\* list calls return them, and the signing secret of the webhook endpoint
\* registered for the venture's URL (NULL: no such endpoint)
Account1 ==
  [products |-> <<Product("prod_1")>>,
   prices |-> <<Price("price_1", "prod_1")>>,
   subs |-> <<Subscription("sub_1", "price_1", "e1", "active")>>,
   charges |-> <<Charge("ch_1", "succeeded", 500, "e1")>>,
   endpoint |-> NULL]

\* an active price of an archived product, a trialing subscription on it,
\* a failed charge
Account2 ==
  [products |-> <<Product("prod_1")>>,
   prices |-> <<Price("price_1", "prod_1"), Price("price_2", "prod_9")>>,
   subs |-> <<Subscription("sub_2", "price_2", "e1", "trialing"),
              Subscription("sub_1", "price_1", NULL, "canceled")>>,
   charges |-> <<Charge("ch_2", "failed", 500, "e1"),
                 Charge("ch_1", "succeeded", 500, NULL)>>,
   endpoint |-> NULL]

Accounts == {Account1, Account2}

\* the signup row and the event a first signup tracking call for
\* (a, e1) leaves (part_006, lines 594-617)
SeedSignup ==
  [venture_id |-> "a", email |-> "e1", name |-> NULL, plan |-> "free",
   status |-> "active", source |-> NULL]
SeedEvent == Event("a", "signup", "e1", NULL)

\* the store after deployment: two ventures, no request in flight, and
\* either no rows or the rows of one tracked signup
StoreInitWith(lim, bKeys, accs, seeds) ==
  /\ ventures \in
       {[s \in VentureSlugs |->
           IF s = "a"
             THEN [stripe_secret_key |-> "sk_test_a",
                   stripe_webhook_secret |-> "whsec_a"]
             ELSE [stripe_secret_key |-> k,
                   stripe_webhook_secret |-> NULL]] :
        k \in bKeys}
  /\ remote \in {[s \in VentureSlugs |-> acc] : acc \in accs}
  /\ \E seeded \in seeds :
       /\ signups = IF seeded THEN <<SeedSignup>> ELSE <<>>
       /\ events = IF seeded THEN SetToBag({SeedEvent}) ELSE EmptyBag
  /\ revenue = EmptyBag
  /\ plans = {} /\ prices = {} /\ subscriptions = {}
  /\ trk = [p \in 1..2 |-> [pc |-> "idle"]]
  /\ hook = [pc |-> "idle"]
  /\ lastReq = [kind |-> "none"]
  /\ nOps = 0 /\ nDone = 0
  /\ limit = lim

StoreIdle ==
  /\ ventures = [s \in VentureSlugs |->
                   [stripe_secret_key |-> NULL,
                    stripe_webhook_secret |-> NULL]]
  /\ remote = [s \in VentureSlugs |-> Account1]
  /\ signups = <<>> /\ revenue = EmptyBag /\ events = EmptyBag
  /\ plans = {} /\ prices = {} /\ subscriptions = {}
  /\ trk = [p \in 1..2 |-> [pc |-> "idle"]]
  /\ hook = [pc |-> "idle"]
  /\ lastReq = [kind |-> "none"]
  /\ nOps = 0 /\ nDone = 0
  /\ limit = 0

\* ------------------------------------------------------------------------
\* Bookkeeping of requests
\* ------------------------------------------------------------------------
\* a request is accepted for processing
Started == nOps < limit /\ nOps' = nOps + 1

\* a request has been answered
Completed(req) == lastReq' = req /\ nDone' = nDone + 1

\* ------------------------------------------------------------------------
\* POST /api/track (part_006, lines 530-782)
\* ------------------------------------------------------------------------
Body(v, ev, em, nm, pl, am, st, so) ==
  [venture |-> v, event |-> ev, email |-> em, name |-> nm, plan |-> pl,
   amount |-> am, status |-> st, source |-> so]

\* The request bodies sent by venture apps.
TrackBodies ==
  { Body("a", "signup", "e1", UNSET, UNSET, Absent, UNSET, UNSET),
    Body("a", "signup", "e1", "n1", "pro", Absent, "trial", "ads"),
    Body("a", "signup", "e1", UNSET, UNSET, Absent, "canceled", UNSET),
    Body("b", "signup", "e1", UNSET, UNSET, Absent, UNSET, UNSET),
    Body("a", "signup", UNSET, "n1", UNSET, Absent, UNSET, UNSET),
    Body("a", "subscription", "e1", UNSET, "pro", Amt(10), UNSET, UNSET),
    Body("a", "subscription", "e1", UNSET, UNSET, Absent, "paused", UNSET),
    Body("a", "subscription", "", UNSET, "pro", Amt(10), UNSET, UNSET),
    Body("a", "payment", "e1", UNSET, UNSET, Amt(10), UNSET, UNSET),
    Body("a", "payment", UNSET, UNSET, UNSET, Amt(0 - 5), UNSET, UNSET),
    Body("a", "payment", "e1", UNSET, UNSET, Amt(0), UNSET, UNSET),
    Body("a", "payment", "e1", UNSET, UNSET, Absent, UNSET, UNSET),
    Body("a", "churn", "e1", UNSET, UNSET, Absent, UNSET, UNSET),
    Body("a", "churn", UNSET, UNSET, UNSET, Absent, UNSET, UNSET),
    Body("a", "trial_start", "e1", UNSET, "starter", Absent, UNSET, UNSET),
    Body("a", "trial_start", "e1", UNSET, UNSET, Absent, UNSET, UNSET),
    Body("a", "trial_start", UNSET, UNSET, UNSET, Absent, UNSET, UNSET),
    Body("a", "trial_end", "e1", UNSET, UNSET, Absent, "active", UNSET),
    Body("a", "trial_end", "e1", UNSET, UNSET, Absent, UNSET, UNSET),
    Body("a", "trial_end", UNSET, UNSET, UNSET, Absent, "active", UNSET),
    Body("a", "page_view", UNSET, UNSET, UNSET, Absent, UNSET, UNSET),
    Body(UNSET, "signup", "e1", UNSET, UNSET, Absent, UNSET, UNSET),
    Body("a", UNSET, "e1", UNSET, UNSET, Absent, UNSET, UNSET),
    Body(UnknownSlug, "signup", "e1", UNSET, UNSET, Absent, UNSET, UNSET),
    Body(UnknownSlug, "payment", UNSET, UNSET, UNSET, Amt(10), UNSET, UNSET),
    Body(UnknownSlug, "churn", UNSET, UNSET, UNSET, Absent, UNSET, UNSET) }

EmailEvents == {"signup", "subscription", "churn", "trial_start", "trial_end"}
TrackEvents == EmailEvents \cup {"payment"}

\* the handler with the email test of the signup case left out
TrackResponseNoSignupEmailTest(vs, body) ==
  IF Falsy(body.venture) THEN 400
  ELSE IF Falsy(body.event) THEN 400
  ELSE IF VentureBySlug(vs, body.venture) = NULL THEN 404
  ELSE IF body.event \in (EmailEvents \ {"signup"}) /\ Falsy(body.email)
    THEN 400
  ELSE IF body.event = "payment" /\ ~TruthyAmt(body.amount) THEN 400
  ELSE 200

\* The HTTP status the handler answers with: lines 548-553 (missing venture
\* or event), 558-566 (venture lookup), and the first test of each case.
TrackResponse(vs, body) ==
  IF Falsy(body.venture) THEN 400
  ELSE IF Falsy(body.event) THEN 400
  ELSE IF VentureBySlug(vs, body.venture) = NULL THEN 404
  ELSE IF body.event \in EmailEvents /\ Falsy(body.email) THEN 400
  ELSE IF body.event = "payment" /\ ~TruthyAmt(body.amount) THEN 400
  ELSE 200

\* the record of an answered request; seq tells that no other request was
\* answered while this one ran
TrackReq(body, resp, seq) ==
  [kind |-> "track", body |-> body, resp |-> resp, seq |-> seq]

\* an early return: nothing is written
TrackRejected ==
  \E body \in TrackBodies :
    /\ TrackResponse(ventures, body) # 200
    /\ Started
    /\ Completed(TrackReq(body, TrackResponse(ventures, body), TRUE))
    /\ UNCHANGED <<ventures, tables, remote, trk, hook, limit>>

\* case 'signup', lines 572-583: the existence check.  The slot keeps the
\* result and the number of requests answered before the check.
TrackSignupCheck(p) ==
  \E body \in TrackBodies :
    /\ body.event = "signup"
    /\ TrackResponse(ventures, body) = 200
    /\ trk[p].pc = "idle"
    /\ p = 1 \/ trk[1].pc # "idle"
    /\ Started
    /\ trk' = [trk EXCEPT ![p] =
                 [pc |-> "write", body |-> body,
                  existing |-> SignupSingle(signups, body.venture, body.email),
                  at |-> nDone]]
    /\ UNCHANGED <<ventures, tables, remote, hook, lastReq, nDone, limit>>

\* the columns the signup case writes
SignupFields(body) ==
  [name |-> OrElse(body.name, NULL),
   plan |-> OrElse(body.plan, "free"),
   status |-> OrElse(body.status, "active"),
   source |-> OrElse(body.source, NULL)]

SignupRow(v, email, f) ==
  [venture_id |-> v, email |-> email, name |-> f.name, plan |-> f.plan,
   status |-> f.status, source |-> f.source]

\* case 'signup', lines 585-617: update or insert, then the event
TrackSignupWrite(p) ==
  /\ trk[p].pc = "write"
  /\ LET body == trk[p].body
         f == SignupFields(body)
     IN /\ signups' =
             IF trk[p].existing # NoId
               THEN SignupsUpdate(signups, {trk[p].existing}, f)
               ELSE SignupsInsert(signups,
                                  SignupRow(body.venture, body.email, f))
        /\ events' = EventsInsert(events,
                        Event(body.venture, "signup", body.email, NULL))
        /\ Completed(TrackReq(body, 200, trk[p].at = nDone))
  /\ trk' = [trk EXCEPT ![p] = [pc |-> "idle"]]
  /\ UNCHANGED <<ventures, revenue, plans, prices, subscriptions, remote,
                 hook, nOps, limit>>

\* the revenue row of the subscription and payment cases; both payloads
\* carry an email column
TrackRevenueRow(body, type) ==
  [venture_id |-> body.venture, signup_id |-> NoId,
   amount |-> body.amount.value, type |-> type,
   stripe_payment_id |-> NULL, stripe_subscription_id |-> NULL]
TrackRevenueCols == {"venture_id", "amount", "currency", "type", "email"}

\* case 'subscription', lines 620-656
TrackSubscription ==
  \E body \in TrackBodies :
    /\ body.event = "subscription"
    /\ TrackResponse(ventures, body) = 200
    /\ Started
    /\ signups' = SignupsUpdate(signups,
                    SignupIds(signups, body.venture, body.email),
                    [plan |-> OrElse(body.plan, "paid"),
                     status |-> OrElse(body.status, "active")])
    /\ revenue' =
         IF TruthyAmt(body.amount) /\ body.amount.value > 0
           THEN RevenueInsert(revenue, TrackRevenueRow(body, "subscription"),
                              TrackRevenueCols, signups)
           ELSE revenue
    /\ events' = EventsInsert(events,
                    Event(body.venture, "subscription", body.email, NULL))
    /\ Completed(TrackReq(body, 200, TRUE))
    /\ UNCHANGED <<ventures, plans, prices, subscriptions, remote, trk, hook,
                   limit>>

\* case 'payment', lines 658-681
TrackPayment ==
  \E body \in TrackBodies :
    /\ body.event = "payment"
    /\ TrackResponse(ventures, body) = 200
    /\ Started
    /\ revenue' = RevenueInsert(revenue, TrackRevenueRow(body, "payment"),
                                TrackRevenueCols, signups)
    /\ events' = EventsInsert(events,
                    Event(body.venture, "payment",
                          OrElse(body.email, NULL), NULL))
    /\ Completed(TrackReq(body, 200, TRUE))
    /\ UNCHANGED <<ventures, signups, plans, prices, subscriptions, remote,
                   trk, hook, limit>>

\* the signup patch of the churn, trial_start and trial_end cases
TrackStatusPatch(body) ==
  IF body.event = "churn" THEN [status |-> "churned"]
  ELSE IF body.event = "trial_start"
    THEN [plan |-> OrElse(body.plan, "trial"), status |-> "trial"]
  ELSE [status |-> IF body.status = "active" THEN "active" ELSE "churned"]

\* cases 'churn', 'trial_start', 'trial_end', lines 683-761: one update of
\* the rows of (venture, email), then the event
TrackStatusChange ==
  \E body \in TrackBodies :
    /\ body.event \in {"churn", "trial_start", "trial_end"}
    /\ TrackResponse(ventures, body) = 200
    /\ Started
    /\ signups' = SignupsUpdate(signups,
                    SignupIds(signups, body.venture, body.email),
                    TrackStatusPatch(body))
    /\ events' = EventsInsert(events,
                    Event(body.venture, body.event, body.email, NULL))
    /\ Completed(TrackReq(body, 200, TRUE))
    /\ UNCHANGED <<ventures, revenue, plans, prices, subscriptions, remote,
                   trk, hook, limit>>

\* default case, lines 763-771: only the event
TrackOther ==
  \E body \in TrackBodies :
    /\ body.event \notin TrackEvents
    /\ TrackResponse(ventures, body) = 200
    /\ Started
    /\ events' = EventsInsert(events,
                    Event(body.venture, body.event,
                          OrElse(body.email, NULL), NULL))
    /\ Completed(TrackReq(body, 200, TRUE))
    /\ UNCHANGED <<ventures, signups, revenue, plans, prices, subscriptions,
                   remote, trk, hook, limit>>

\* ------------------------------------------------------------------------
\* POST /api/track with an API key (part_009)
\* ------------------------------------------------------------------------
\* the data object of the body; given = FALSE when the body has none
Data(em, pl, am, ty, pid, to) ==
  [given |-> TRUE, email |-> em, plan |-> pl, amount |-> am, type |-> ty,
   stripe_payment_id |-> pid, to_plan |-> to]
NoData == [given |-> FALSE]

KeyedBody(key, project, ev, data) ==
  [apiKey |-> key, project |-> project, event |-> ev, data |-> data]

TRACKER_API_KEY == "tracker_key"

KeyedBodies ==
  { KeyedBody(TRACKER_API_KEY, "a", "signup",
              Data("e1", UNSET, Absent, UNSET, UNSET, UNSET)),
    KeyedBody(TRACKER_API_KEY, "a", "signup",
              Data("e1", "paid", Absent, UNSET, UNSET, UNSET)),
    KeyedBody(TRACKER_API_KEY, "a", "signup", NoData),
    KeyedBody(TRACKER_API_KEY, "a", "revenue",
              Data("e1", UNSET, Amt(10), UNSET, "ch_1", UNSET)),
    KeyedBody(TRACKER_API_KEY, "a", "revenue",
              Data("e1", "pro", Amt(10), "refund", UNSET, UNSET)),
    KeyedBody(TRACKER_API_KEY, "a", "upgrade",
              Data("e1", UNSET, Amt(10), UNSET, UNSET, "pro")),
    KeyedBody(TRACKER_API_KEY, "a", "churn",
              Data("e1", UNSET, Absent, UNSET, UNSET, UNSET)),
    KeyedBody(TRACKER_API_KEY, "a", "page_view",
              Data(UNSET, UNSET, Absent, UNSET, UNSET, UNSET)),
    KeyedBody("wrong_key", "a", "signup",
              Data("e1", UNSET, Absent, UNSET, UNSET, UNSET)),
    KeyedBody(TRACKER_API_KEY, UnknownSlug, "signup",
              Data("e1", UNSET, Absent, UNSET, UNSET, UNSET)),
    KeyedBody(TRACKER_API_KEY, "a", UNSET,
              Data("e1", UNSET, Absent, UNSET, UNSET, UNSET)) }

\* lines 8-38, and the TypeError of destructuring an absent data object in
\* the four handlers (caught at line 66)
KeyedResponse(vs, body) ==
  IF Falsy(body.apiKey) \/ body.apiKey # TRACKER_API_KEY THEN 401
  ELSE IF Falsy(body.project) \/ Falsy(body.event) THEN 400
  ELSE IF VentureBySlug(vs, body.project) = NULL THEN 404
  ELSE IF body.event \in {"signup", "revenue", "upgrade", "downgrade",
                          "churn"} /\ ~body.data.given THEN 500
  ELSE 200

KeyedReq(body, resp) ==
  [kind |-> "keyed", body |-> body, resp |-> resp, seq |-> TRUE]

KeyedRejected ==
  \E body \in KeyedBodies :
    /\ KeyedResponse(ventures, body) # 200
    /\ Started
    /\ Completed(KeyedReq(body, KeyedResponse(ventures, body)))
    /\ UNCHANGED <<ventures, tables, remote, trk, hook, limit>>

\* undefined is left out of the JSON payload: the column is NULL
Json(x) == IF x = UNSET THEN NULL ELSE x

\* handleSignup, lines 72-94: the signups table after the insert
handleSignup(tbl, v, d) ==
  SignupsInsert(tbl,
    [venture_id |-> v, email |-> Json(d.email), name |-> NULL,
     plan |-> IF d.plan = UNSET THEN "free" ELSE d.plan,
     status |-> IF d.plan \in {UNSET, "free"} THEN "trial" ELSE "active",
     source |-> NULL])

KeyedSignup ==
  \E body \in KeyedBodies :
    /\ body.event = "signup"
    /\ KeyedResponse(ventures, body) = 200
    /\ Started
    /\ signups' = handleSignup(signups, body.project, body.data)
    /\ events' = EventsInsert(events,
                    Event(body.project, "signup", Json(body.data.email), NULL))
    /\ Completed(KeyedReq(body, 200))
    /\ UNCHANGED <<ventures, revenue, plans, prices, subscriptions, remote,
                   trk, hook, limit>>

\* handleRevenue, lines 96-146
KeyedRevenue ==
  \E body \in KeyedBodies :
    /\ body.event = "revenue"
    /\ KeyedResponse(ventures, body) = 200
    /\ Started
    /\ LET d == body.data
           type == IF d.type = UNSET THEN "subscription" ELSE d.type
           sid == SignupSingle(signups, body.project, d.email)
       IN /\ revenue' =
               IF d.amount.given
                 THEN RevenueInsert(revenue,
                        [venture_id |-> body.project, signup_id |-> sid,
                         amount |-> d.amount.value, type |-> type,
                         stripe_payment_id |-> Json(d.stripe_payment_id),
                         stripe_subscription_id |-> NULL],
                        {"venture_id", "signup_id", "amount", "currency",
                         "type", "plan", "stripe_payment_id",
                         "stripe_subscription_id", "period_start",
                         "period_end"}, signups)
                 ELSE revenue
          /\ signups' =
               IF sid # NoId /\ type # "refund"
                 THEN SignupsUpdate(signups, {sid},
                        IF Falsy(d.plan) THEN [status |-> "active"]
                        ELSE [status |-> "active", plan |-> d.plan])
                 ELSE signups
          /\ events' = EventsInsert(events,
                          Event(body.project,
                                IF type = "refund" THEN "refund" ELSE "payment",
                                Json(d.email), NULL))
    /\ Completed(KeyedReq(body, 200))
    /\ UNCHANGED <<ventures, plans, prices, subscriptions, remote, trk, hook,
                   limit>>

\* handlePlanChange, lines 148-183
KeyedPlanChange ==
  \E body \in KeyedBodies :
    /\ body.event \in {"upgrade", "downgrade"}
    /\ KeyedResponse(ventures, body) = 200
    /\ Started
    /\ LET d == body.data
           after == SignupsUpdate(signups,
                      SignupIds(signups, body.project, d.email),
                      [plan |-> Json(d.to_plan)])
       IN /\ signups' = after
          /\ revenue' =
               IF TruthyAmt(d.amount) /\ d.amount.value > 0
                 THEN RevenueInsert(revenue,
                        [venture_id |-> body.project,
                         signup_id |-> SignupSingle(after, body.project,
                                                    d.email),
                         amount |-> d.amount.value, type |-> body.event,
                         stripe_payment_id |-> NULL,
                         stripe_subscription_id |-> NULL],
                        {"venture_id", "signup_id", "amount", "type", "plan"},
                        after)
                 ELSE revenue
          /\ events' = EventsInsert(events,
                          Event(body.project, body.event, Json(d.email), NULL))
    /\ Completed(KeyedReq(body, 200))
    /\ UNCHANGED <<ventures, plans, prices, subscriptions, remote, trk, hook,
                   limit>>

\* handleChurn, lines 185-202
KeyedChurn ==
  \E body \in KeyedBodies :
    /\ body.event = "churn"
    /\ KeyedResponse(ventures, body) = 200
    /\ Started
    /\ signups' = SignupsUpdate(signups,
                    SignupIds(signups, body.project, body.data.email),
                    [status |-> "churned"])
    /\ events' = EventsInsert(events,
                    Event(body.project, "churn", Json(body.data.email), NULL))
    /\ Completed(KeyedReq(body, 200))
    /\ UNCHANGED <<ventures, revenue, plans, prices, subscriptions, remote,
                   trk, hook, limit>>

\* default case, lines 55-63; data?.email tolerates an absent data object
KeyedOther ==
  \E body \in KeyedBodies :
    /\ body.event \notin {"signup", "revenue", "upgrade", "downgrade", "churn"}
    /\ KeyedResponse(ventures, body) = 200
    /\ Started
    /\ events' = EventsInsert(events,
                    Event(body.project, body.event,
                          IF body.data.given THEN Json(body.data.email)
                          ELSE NULL, NULL))
    /\ Completed(KeyedReq(body, 200))
    /\ UNCHANGED <<ventures, signups, revenue, plans, prices, subscriptions,
                   remote, trk, hook, limit>>

NextTrack ==
  \/ TrackRejected /\ UNCHANGED <<cvars, fvars>>
  \/ \E p \in 1..2 : TrackSignupCheck(p) /\ UNCHANGED <<cvars, fvars>>
  \/ \E p \in 1..2 : TrackSignupWrite(p) /\ UNCHANGED <<cvars, fvars>>
  \/ TrackSubscription /\ UNCHANGED <<cvars, fvars>>
  \/ TrackPayment /\ UNCHANGED <<cvars, fvars>>
  \/ TrackStatusChange /\ UNCHANGED <<cvars, fvars>>
  \/ TrackOther /\ UNCHANGED <<cvars, fvars>>
  \/ KeyedRejected /\ UNCHANGED <<cvars, fvars>>
  \/ KeyedSignup /\ UNCHANGED <<cvars, fvars>>
  \/ KeyedRevenue /\ UNCHANGED <<cvars, fvars>>
  \/ KeyedPlanChange /\ UNCHANGED <<cvars, fvars>>
  \/ KeyedChurn /\ UNCHANGED <<cvars, fvars>>
  \/ KeyedOther /\ UNCHANGED <<cvars, fvars>>

\* Bounds on the number of requests of a behaviour.
MaxTrackOps == 4

InitTrack ==
  StoreInitWith(MaxTrackOps, {NULL}, {Account1}, {FALSE})
    /\ FetchIdle /\ ClassifyIdle
SpecTrack == InitTrack /\ [][NextTrack]_vars

\* ------------------------------------------------------------------------
\* POST /api/webhooks/stripe (app/api/webhooks/stripe/route.ts)
\* ------------------------------------------------------------------------
\* the object of a Stripe event, with the fields the handlers read
HookEvent(type, id, price, product, status, email, amount, pi) ==
  [type |-> type, id |-> id, price |-> price, product |-> product,
   status |-> status, email |-> email, amount |-> amount,
   payment_intent |-> pi]

\* a delivery: the venture query parameter, the secret the stripe-signature
\* header was computed with (NULL: no header) and the event of the body
Delivery(slug, sig, ev) == [venture |-> slug, sig |-> sig, event |-> ev]

SubscriptionDeleted ==
  HookEvent("customer.subscription.deleted", "sub_1", "price_1", NULL,
            "canceled", "e1", 0, NULL)
InvoicePaid ==
  HookEvent("invoice.paid", "sub_1", NULL, NULL, NULL, "e1", 500, "pi_1")

\* The deliveries that reach the endpoint.
Deliveries ==
  { Delivery("a", "whsec_a",
      HookEvent("customer.subscription.created", "sub_1", "price_1", NULL,
                "active", "e1", 0, NULL)),
    Delivery("a", "whsec_a",
      HookEvent("customer.subscription.updated", "sub_1", "price_1", NULL,
                "past_due", "e1", 0, NULL)),
    Delivery("a", "whsec_a",
      HookEvent("customer.subscription.updated", "sub_1", "price_1", NULL,
                "trialing", UNSET, 0, NULL)),
    Delivery("a", "whsec_a", SubscriptionDeleted),
    Delivery("a", "whsec_a", InvoicePaid),
    Delivery("a", "whsec_a",
      HookEvent("invoice.paid", "sub_1", NULL, NULL, NULL, "e1", 0, NULL)),
    Delivery("a", "whsec_a",
      HookEvent("invoice.payment_failed", "sub_1", NULL, NULL, NULL, "e1",
                500, NULL)),
    Delivery("a", "whsec_a",
      HookEvent("product.created", "prod_1", NULL, NULL, NULL, UNSET, 0,
                NULL)),
    Delivery("a", "whsec_a",
      HookEvent("price.updated", "price_1", NULL, "prod_1", NULL, UNSET, 0,
                NULL)),
    Delivery("a", "whsec_a",
      HookEvent("charge.succeeded", "ch_1", NULL, NULL, NULL, "e1", 500,
                "pi_1")),
    Delivery("a", "whsec_x", SubscriptionDeleted),
    Delivery("a", NULL, InvoicePaid),
    Delivery("b", "whsec_a", SubscriptionDeleted),
    Delivery("b", NULL, InvoicePaid),
    Delivery(UnknownSlug, "whsec_a", SubscriptionDeleted),
    Delivery(UNSET, "whsec_a", InvoicePaid) }

\* stripe.webhooks.constructEvent(body, signature, secret), line 34, with a
\* venture whose missing secret is let through
VerifiedUnlessNoSecret(sig, secret) ==
  secret = NULL \/ (sig # NULL /\ sig = secret)

\* stripe.webhooks.constructEvent(body, signature, secret), line 34: returns
\* the event when the header was computed with the secret, throws otherwise
\* (also for a null header or a null secret)
Verified(sig, secret) == secret # NULL /\ sig # NULL /\ sig = secret

HookReq(d, resp, seq) ==
  [kind |-> "hook", body |-> d, resp |-> resp, seq |-> seq]

\* lines 10-27: the venture parameter and the lookup of the venture with
\* its keys
HookLookup ==
  \E d \in Deliveries :
    /\ hook.pc = "idle"
    /\ Started
    /\ UNCHANGED <<ventures, tables, remote, trk, limit>>
    /\ IF Falsy(d.venture)
         THEN Completed(HookReq(d, 400, TRUE)) /\ UNCHANGED hook
       ELSE IF \/ VentureBySlug(ventures, d.venture) = NULL
               \/ Falsy(ventures[d.venture].stripe_secret_key)
         THEN Completed(HookReq(d, 404, TRUE)) /\ UNCHANGED hook
       ELSE /\ hook' = [pc |-> "looked", body |-> d,
                        secret |-> ventures[d.venture].stripe_webhook_secret,
                        at |-> nDone]
            /\ UNCHANGED <<lastReq, nDone>>

\* lines 31-38: the signature check against the secret of the venture
HookVerify ==
  /\ hook.pc = "looked"
  /\ UNCHANGED <<ventures, tables, remote, trk, nOps, limit>>
  /\ IF Verified(hook.body.sig, hook.secret)
       THEN /\ hook' = [hook EXCEPT !.pc = "verified"]
            /\ UNCHANGED <<lastReq, nDone>>
       ELSE /\ hook' = [pc |-> "idle"]
            /\ Completed(HookReq(hook.body, 400, hook.at = nDone))

\* line 70: { received: true }
HookDone ==
  /\ hook' = [pc |-> "idle"]
  /\ Completed(HookReq(hook.body, 200, hook.at = nDone))
  /\ UNCHANGED <<ventures, remote, trk, nOps, limit>>

\* the event type of line 132, 'subscription_' + subscription.status
SubscriptionEventType(status) ==
  CASE status = "active" -> "subscription_active"
    [] status = "trialing" -> "subscription_trialing"
    [] status = "past_due" -> "subscription_past_due"
    [] OTHER -> "subscription_canceled"

PlanRow(id, v, product) ==
  [id |-> id, venture_id |-> v, stripe_product_id |-> product]
PriceRow(id, v, plan, price) ==
  [id |-> id, venture_id |-> v, plan_id |-> plan, stripe_price_id |-> price]
SubscriptionRow(id, v, sub, price, status) ==
  [id |-> id, venture_id |-> v, stripe_subscription_id |-> sub,
   price_id |-> price, status |-> status]

\* handleSubscriptionChange, lines 77-139.  The customer of an event is an
\* id, so the email is the one of the metadata.
HookSubscriptionChange ==
  /\ hook.pc = "verified"
  /\ hook.body.event.type \in {"customer.subscription.created",
                               "customer.subscription.updated"}
  /\ LET v == hook.body.venture
         ev == hook.body.event
         price == KeyedSingle(prices, "stripe_price_id", ev.price, v)
         signupId == IF Falsy(ev.email) THEN NoId
                     ELSE SignupSingle(signups, v, ev.email)
     IN /\ subscriptions' =
             KeyedUpsert(subscriptions,
                         SubscriptionRow(NULL, v, ev.id, price, ev.status),
                         "stripe_subscription_id", SubscriptionsUniqueKeys,
                         {"signup_id", "cancel_at"} \subseteq
                           SubscriptionsColumns)
        /\ signups' =
             IF signupId # NoId
               THEN SignupsUpdate(signups, {signupId}, [status |-> ev.status])
               ELSE signups
        /\ events' = EventsInsert(events,
                        Event(v, SubscriptionEventType(ev.status),
                              Json(ev.email), ev.id))
  /\ HookDone
  /\ UNCHANGED <<revenue, plans, prices>>

\* .select(col).eq('stripe_subscription_id', sid).single() on
\* subscriptions: null when the column does not exist or when not exactly
\* one row matches
SubscriptionsSingle(tbl, col, sid) ==
  LET m == {x \in tbl : x.stripe_subscription_id = sid}
  IN IF col \in SubscriptionsColumns /\ Cardinality(m) = 1
       THEN (CHOOSE x \in m : TRUE)[col]
       ELSE NoId

\* handleSubscriptionDeleted, lines 141-171
HookSubscriptionDeleted ==
  /\ hook.pc = "verified"
  /\ hook.body.event.type = "customer.subscription.deleted"
  /\ LET v == hook.body.venture
         ev == hook.body.event
         after == {IF x.stripe_subscription_id = ev.id
                     THEN [x EXCEPT !.status = "canceled"] ELSE x :
                   x \in subscriptions}
         signupId == SubscriptionsSingle(after, "signup_id", ev.id)
     IN /\ subscriptions' = after
        /\ signups' =
             IF signupId # NoId
               THEN SignupsUpdate(signups, {signupId}, [status |-> "churned"])
               ELSE signups
        /\ events' = EventsInsert(events, Event(v, "churn", NULL, ev.id))
  /\ HookDone
  /\ UNCHANGED <<revenue, plans, prices>>

\* handleInvoicePaid, lines 173-209
HookInvoicePaid ==
  /\ hook.pc = "verified"
  /\ hook.body.event.type = "invoice.paid"
  /\ LET v == hook.body.venture
         ev == hook.body.event
     IN IF ev.amount = 0
          THEN UNCHANGED <<revenue, events>>
          ELSE /\ revenue' =
                    RevenueInsert(revenue,
                      [venture_id |-> v,
                       signup_id |-> SignupSingle(signups, v, ev.email),
                       amount |-> ev.amount \div 100,
                       type |-> "subscription",
                       stripe_payment_id |-> ev.payment_intent,
                       stripe_subscription_id |-> ev.id],
                      {"venture_id", "signup_id", "amount", "currency",
                       "type", "stripe_payment_id", "stripe_subscription_id",
                       "period_start", "period_end"}, signups)
               /\ events' = EventsInsert(events,
                               Event(v, "payment", ev.email, NULL))
  /\ HookDone
  /\ UNCHANGED <<signups, plans, prices, subscriptions>>

\* handlePaymentFailed, lines 211-221
HookPaymentFailed ==
  /\ hook.pc = "verified"
  /\ hook.body.event.type = "invoice.payment_failed"
  /\ events' = EventsInsert(events,
                  Event(hook.body.venture, "payment_failed",
                        hook.body.event.email, hook.body.event.id))
  /\ HookDone
  /\ UNCHANGED <<signups, revenue, plans, prices, subscriptions>>

\* handleProductChange, lines 223-234
HookProductChange ==
  /\ hook.pc = "verified"
  /\ hook.body.event.type \in {"product.created", "product.updated"}
  /\ plans' = KeyedUpsert(plans,
                PlanRow(NULL, hook.body.venture, hook.body.event.id),
                "stripe_product_id", PlansUniqueKeys, TRUE)
  /\ HookDone
  /\ UNCHANGED <<signups, revenue, events, prices, subscriptions>>

\* handlePriceChange, lines 236-257
HookPriceChange ==
  /\ hook.pc = "verified"
  /\ hook.body.event.type \in {"price.created", "price.updated"}
  /\ LET v == hook.body.venture
         ev == hook.body.event
     IN prices' = KeyedUpsert(prices,
                    PriceRow(NULL, v,
                             KeyedSingle(plans, "stripe_product_id",
                                         ev.product, v),
                             ev.id),
                    "stripe_price_id", PricesUniqueKeys, TRUE)
  /\ HookDone
  /\ UNCHANGED <<signups, revenue, events, plans, subscriptions>>

HandledEventTypes ==
  {"customer.subscription.created", "customer.subscription.updated",
   "customer.subscription.deleted", "invoice.paid", "invoice.payment_failed",
   "product.created", "product.updated", "price.created", "price.updated"}

\* a switch whose default case logs the event
HookUnhandledLogged ==
  /\ hook.pc = "verified"
  /\ hook.body.event.type \notin HandledEventTypes
  /\ events' = EventsInsert(events,
                  Event(hook.body.venture, hook.body.event.type, NULL,
                        hook.body.event.id))
  /\ HookDone
  /\ UNCHANGED <<signups, revenue, plans, prices, subscriptions>>

\* the switch of lines 41-68 has no default case
HookUnhandled ==
  /\ hook.pc = "verified"
  /\ hook.body.event.type \notin HandledEventTypes
  /\ HookDone
  /\ UNCHANGED tables

\* ------------------------------------------------------------------------
\* The two sync passes
\* ------------------------------------------------------------------------
\* the upserts of a loop, in list order; each entry carries the row and
\* whether its references resolve
RECURSIVE UpsertEach(_, _, _, _)
UpsertEach(tbl, rows, onConflict, uniqueKeys) ==
  IF rows = <<>> THEN tbl
  ELSE UpsertEach(KeyedUpsert(tbl, Head(rows).row, onConflict, uniqueKeys,
                              Head(rows).ok),
                  Tail(rows), onConflict, uniqueKeys)

\* how many upserts of a loop return no error
UpsertCount(rows, onConflict, uniqueKeys) ==
  Cardinality({i \in DOMAIN rows :
                 KeyedUpsertOK(rows[i].row, onConflict, uniqueKeys,
                               rows[i].ok)})

Ids(tbl) == {x.id : x \in tbl}

\* the Stripe call that throws during a pass, if any
SyncFailures == {"none", "auth", "products", "prices", "subscriptions"}

NoCounts == [plans |-> 0, prices |-> 0, subscriptions |-> 0]

\* a sync request: the venture, whether the caller is a superadmin, the
\* failing Stripe call and whether customers.retrieve answers
SyncBody(slug, admin, fail, retrieved) ==
  [venture |-> slug, admin |-> admin, fail |-> fail, retrieved |-> retrieved]

SyncReq(kind, body, resp, synced) ==
  [kind |-> kind, body |-> body, resp |-> resp, synced |-> synced,
   seq |-> TRUE]

\* --- POST /api/ventures/[slug]/stripe/sync (part_007) --------------------
\* lines 42-59, 64-86, 91-122: the rows the three loops upsert
SyncPlanRows(acc, v) ==
  [i \in DOMAIN acc.products |->
     [row |-> PlanRow(acc.products[i].id, v, acc.products[i].id),
      ok |-> TRUE]]

SyncPriceRows(acc, v, pl) ==
  [i \in DOMAIN acc.prices |->
     [row |-> PriceRow(acc.prices[i].id, v, acc.prices[i].product,
                       acc.prices[i].id),
      ok |-> acc.prices[i].product \in Ids(pl)]]

\* subscriptions.list without a status filter leaves the canceled ones out
ListedSubscriptions(acc) ==
  SelectSeq(acc.subs, LAMBDA s : s.status # "canceled")

SyncSubscriptionRows(subs, v, pr) ==
  [i \in DOMAIN subs |->
     [row |-> SubscriptionRow(subs[i].id, v, subs[i].id, subs[i].price,
                              subs[i].status),
      ok |-> subs[i].price \in Ids(pr)]]

\* lines 138-141
SyncSignupStatus(status) ==
  IF status = "active" THEN "active"
  ELSE IF status = "trialing" THEN "trial"
  ELSE IF status = "canceled" THEN "churned"
  ELSE status

\* lines 127-148: the signup upsert of every subscription that was stored
\* and has a customer email; the product of the price is not expanded, so
\* the plan is 'paid'
RECURSIVE SyncSignups(_, _, _, _)
SyncSignups(sgn, v, subs, pr) ==
  IF subs = <<>> THEN sgn
  ELSE LET s == Head(subs)
           stored == KeyedUpsertOK(
                       SubscriptionRow(s.id, v, s.id, s.price, s.status),
                       "id", SubscriptionsUniqueKeys, s.price \in Ids(pr))
       IN SyncSignups(
            IF stored /\ ~Falsy(s.email)
              THEN SignupsUpsert(sgn,
                     [venture_id |-> v, email |-> s.email, name |-> NULL,
                      plan |-> "paid",
                      status |-> SyncSignupStatus(s.status),
                      source |-> "stripe"],
                     "venture_id,email")
              ELSE sgn,
            v, Tail(subs), pr)

\* the catch block, lines 165-177
SyncErrorStatus(fail) == IF fail = "auth" THEN 401 ELSE 500

VentureSync ==
  \E slug \in VentureSlugs \cup {UnknownSlug}, fail \in SyncFailures :
    /\ Started
    /\ UNCHANGED <<ventures, revenue, remote, trk, hook, limit>>
    /\ IF VentureBySlug(ventures, slug) = NULL
         THEN /\ fail = "none"
              /\ Completed(SyncReq("sync", SyncBody(slug, TRUE, fail, TRUE), 404,
                                  NoCounts))
              /\ UNCHANGED <<signups, events, plans, prices, subscriptions>>
       ELSE IF Falsy(ventures[slug].stripe_secret_key)
         THEN /\ fail = "none"
              /\ Completed(SyncReq("sync", SyncBody(slug, TRUE, fail, TRUE), 400,
                                  NoCounts))
              /\ UNCHANGED <<signups, events, plans, prices, subscriptions>>
       ELSE
         LET acc == remote[slug]
             planRows == SyncPlanRows(acc, slug)
             plans1 == UpsertEach(plans, planRows, "id", PlansUniqueKeys)
             priceRows == SyncPriceRows(acc, slug, plans1)
             prices1 == UpsertEach(prices, priceRows, "id", PricesUniqueKeys)
             subs == ListedSubscriptions(acc)
             subRows == SyncSubscriptionRows(subs, slug, prices1)
         IN /\ plans' = IF fail \in {"auth", "products"} THEN plans
                        ELSE plans1
            /\ prices' = IF fail \in {"auth", "products", "prices"}
                           THEN prices
                         ELSE prices1
            /\ subscriptions' =
                 IF fail # "none" THEN subscriptions
                 ELSE UpsertEach(subscriptions, subRows, "id",
                                 SubscriptionsUniqueKeys)
            /\ signups' = IF fail # "none" THEN signups
                          ELSE SyncSignups(signups, slug, subs, prices1)
            /\ events' = IF fail # "none" THEN events
                         ELSE EventsInsert(events,
                                Event(slug, "stripe_sync", NULL, NULL))
            /\ Completed(
                 IF fail # "none"
                   THEN SyncReq("sync", SyncBody(slug, TRUE, fail, TRUE),
                                SyncErrorStatus(fail), NoCounts)
                   ELSE SyncReq("sync", SyncBody(slug, TRUE, fail, TRUE), 200,
                          [plans |-> UpsertCount(planRows, "id",
                                                 PlansUniqueKeys),
                           prices |-> UpsertCount(priceRows, "id",
                                                  PricesUniqueKeys),
                           subscriptions |->
                             UpsertCount(subRows, "id",
                                         SubscriptionsUniqueKeys)]))

\* --- POST /api/stripe/sync (app/api/webhooks/stripe/sync/route.ts) -------
\* lines 38-49, 53-73: the rows of the product and price loops; no id is
\* given
AdminPlanRows(acc, v) ==
  [i \in DOMAIN acc.products |->
     [row |-> PlanRow(NULL, v, acc.products[i].id), ok |-> TRUE]]

AdminPriceRows(acc, v, pl) ==
  [i \in DOMAIN acc.prices |->
     [row |-> PriceRow(NULL, v,
                       KeyedSingle(pl, "stripe_product_id",
                                   acc.prices[i].product, v),
                       acc.prices[i].id),
      ok |-> TRUE]]

AdminSubscriptionRows(acc, v, pr) ==
  [i \in DOMAIN acc.subs |->
     [row |-> SubscriptionRow(NULL, v, acc.subs[i].id,
                              KeyedSingle(pr, "stripe_price_id",
                                          acc.subs[i].price, v),
                              acc.subs[i].status),
      ok |-> {"signup_id", "cancel_at"} \subseteq SubscriptionsColumns]]

\* lines 87-124: the signup of every subscription whose customer has an
\* email is looked up and, when not found, inserted
RECURSIVE AdminSignups(_, _, _, _)
AdminSignups(sgn, v, subs, retrieved) ==
  IF subs = <<>> THEN sgn
  ELSE LET s == Head(subs)
           email == IF retrieved THEN s.email ELSE NULL
       IN AdminSignups(
            IF ~Falsy(email) /\ SignupSingle(sgn, v, email) = NoId
              THEN SignupsInsert(sgn,
                     [venture_id |-> v, email |-> email, name |-> NULL,
                      plan |-> "paid", status |-> s.status,
                      source |-> "stripe_sync"])
              ELSE sgn,
            v, Tail(subs), retrieved)

\* lines 143-175: every succeeded charge without a revenue row of its id
\* becomes a revenue row
RECURSIVE AdminCharges(_, _, _, _)
AdminCharges(rev, sgn, v, charges) ==
  IF charges = <<>> THEN rev
  ELSE LET c == Head(charges)
       IN AdminCharges(
            IF c.status = "succeeded" /\ ~RevenueSingleExists(rev, c.id)
              THEN RevenueInsert(rev,
                     [venture_id |-> v,
                      signup_id |-> IF Falsy(c.email) THEN NoId
                                    ELSE SignupSingle(sgn, v, c.email),
                      amount |-> c.amount \div 100, type |-> "subscription",
                      stripe_payment_id |-> c.id,
                      stripe_subscription_id |-> NULL],
                     {"venture_id", "signup_id", "amount", "currency",
                      "type", "stripe_payment_id", "created_at"}, sgn)
              ELSE rev,
            sgn, v, Tail(charges))

AdminSyncFailures == {"none", "auth", "products", "prices",
                      "subscriptions", "charges"}

\* lines 10-31: the status of the early returns, 200 when there is none
AdminSyncResponse(vs, admin, slug) ==
  IF ~admin THEN 401
  ELSE IF Falsy(slug) THEN 400
  ELSE IF VentureBySlug(vs, slug) = NULL THEN 404
  ELSE IF Falsy(vs[slug].stripe_secret_key) THEN 404
  ELSE 200

AdminSyncRejected ==
  \E admin \in BOOLEAN, slug \in VentureSlugs \cup {UnknownSlug, UNSET} :
    /\ AdminSyncResponse(ventures, admin, slug) # 200
    /\ Started
    /\ Completed(SyncReq("adminSync", SyncBody(slug, admin, "none", TRUE),
                         AdminSyncResponse(ventures, admin, slug), NoCounts))
    /\ UNCHANGED <<ventures, tables, remote, trk, hook, limit>>

AdminSync ==
  \E slug \in VentureSlugs, fail \in AdminSyncFailures,
     retrieved \in BOOLEAN :
    /\ AdminSyncResponse(ventures, TRUE, slug) = 200
    /\ fail # "none" => retrieved
    /\ Started
    /\ UNCHANGED <<ventures, events, remote, trk, hook, limit>>
    /\ LET acc == remote[slug]
           plans1 == UpsertEach(plans, AdminPlanRows(acc, slug),
                                "stripe_product_id", PlansUniqueKeys)
           prices1 == UpsertEach(prices, AdminPriceRows(acc, slug, plans1),
                                 "stripe_price_id", PricesUniqueKeys)
           signups1 == AdminSignups(signups, slug, acc.subs, retrieved)
           early == {"auth", "products", "prices", "subscriptions"}
       IN /\ plans' = IF fail \in {"auth", "products"} THEN plans
                      ELSE plans1
          /\ prices' = IF fail \in {"auth", "products", "prices"}
                         THEN prices
                       ELSE prices1
          /\ subscriptions' =
               IF fail \in early
                 THEN subscriptions
               ELSE UpsertEach(subscriptions,
                               AdminSubscriptionRows(acc, slug, prices1),
                               "stripe_subscription_id",
                               SubscriptionsUniqueKeys)
          /\ signups' = IF fail \in early THEN signups ELSE signups1
          /\ revenue' = IF fail # "none" THEN revenue
                        ELSE AdminCharges(revenue, signups1, slug,
                                          acc.charges)
          /\ Completed(
               IF fail # "none"
                 THEN SyncReq("adminSync",
                              SyncBody(slug, TRUE, fail, retrieved), 500,
                              NoCounts)
                 ELSE SyncReq("adminSync",
                              SyncBody(slug, TRUE, fail, retrieved), 200,
                              [plans |-> Len(acc.products),
                               prices |-> Len(acc.prices),
                               subscriptions |-> Len(acc.subs)]))

NextIngest ==
  \/ HookLookup /\ UNCHANGED <<cvars, fvars>>
  \/ HookVerify /\ UNCHANGED <<cvars, fvars>>
  \/ HookSubscriptionChange /\ UNCHANGED <<cvars, fvars>>
  \/ HookSubscriptionDeleted /\ UNCHANGED <<cvars, fvars>>
  \/ HookInvoicePaid /\ UNCHANGED <<cvars, fvars>>
  \/ HookPaymentFailed /\ UNCHANGED <<cvars, fvars>>
  \/ HookProductChange /\ UNCHANGED <<cvars, fvars>>
  \/ HookPriceChange /\ UNCHANGED <<cvars, fvars>>
  \/ HookUnhandled /\ UNCHANGED <<cvars, fvars>>
  \/ VentureSync /\ UNCHANGED <<cvars, fvars>>
  \/ AdminSyncRejected /\ UNCHANGED <<cvars, fvars>>
  \/ AdminSync /\ UNCHANGED <<cvars, fvars>>

MaxIngestOps == 3

InitIngest ==
  StoreInitWith(MaxIngestOps, {NULL, "sk_test_a"}, Accounts, BOOLEAN)
    /\ FetchIdle /\ ClassifyIdle
SpecIngest == InitIngest /\ [][NextIngest]_vars

\* tracking calls, webhook deliveries and sync passes together
NextStore == NextTrack \/ NextIngest

MaxStoreOps == 2

InitStore ==
  StoreInitWith(MaxStoreOps, {NULL, "sk_test_a"}, {Account1}, {FALSE})
    /\ FetchIdle /\ ClassifyIdle
SpecStore == InitStore /\ [][NextStore]_vars

\* all writers racing for the signup (a, e1) that one tracking call left
MaxRaceOps == 2
InitRace ==
  StoreInitWith(MaxRaceOps, {NULL}, {Account1}, {TRUE})
  /\ FetchIdle /\ ClassifyIdle
SpecRace == InitRace /\ [][NextStore]_vars

\* ------------------------------------------------------------------------
\* POST / DELETE /api/ventures/[slug]/stripe-keys (part_008) and
\* POST /api/ventures/[slug]/setup-stripe (part_010)
\* ------------------------------------------------------------------------
\* A submitted key is absent or a string, given by its first eight
\* characters and the rest.
NoKey == [given |-> FALSE, head |-> "", rest |-> ""]
Key(head, rest) == [given |-> TRUE, head |-> head, rest |-> rest]
KeyText(k) == IF k.given THEN k.head \o k.rest ELSE UNSET

\* a check that lets every key through
StartsWithAnything(k) == TRUE

\* part_008, line 18: startsWith('sk_live_') || startsWith('sk_test_')
StartsWithSecretPrefix(k) == k.head \in {"sk_live_", "sk_test_"}

KeysBody(key, whsec) ==
  [stripe_secret_key |-> key, stripe_webhook_secret |-> whsec]

KeysBodies ==
  { KeysBody(k, w) :
      k \in {NoKey, Key("", ""), Key("pk_test_", "a"), Key("rk_live_", "a"),
             Key("sk_", ""), Key("sk_test_", "a"), Key("sk_live_", "b")},
      w \in {UNSET, "", "whsec_a", "whsec_x"} }

KeysReq(method, slug, body, resp) ==
  [kind |-> "keys", method |-> method, slug |-> slug, body |-> body,
   resp |-> resp]

\* part_008, lines 14-43: the two validations, then the update whose
\* .single() reports an error when no row has the slug
KeysSaveResponse(vs, slug, body) ==
  IF Falsy(KeyText(body.stripe_secret_key)) THEN 400
  ELSE IF ~StartsWithSecretPrefix(body.stripe_secret_key) THEN 400
  ELSE IF VentureBySlug(vs, slug) = NULL THEN 500
  ELSE 200

\* part_008, lines 5-53
KeysSave ==
  \E slug \in VentureSlugs \cup {UnknownSlug}, body \in KeysBodies :
    /\ Started
    /\ Completed(KeysReq("POST", slug, body,
                         KeysSaveResponse(ventures, slug, body)))
    /\ ventures' =
         IF KeysSaveResponse(ventures, slug, body) = 200
           THEN [ventures EXCEPT ![slug] =
                   [stripe_secret_key |-> KeyText(body.stripe_secret_key),
                    stripe_webhook_secret |->
                      OrElse(body.stripe_webhook_secret, NULL)]]
           ELSE ventures
    /\ UNCHANGED <<tables, remote, trk, hook, limit>>

\* part_008, lines 56-86: success also when no row has the slug
KeysDelete ==
  \E slug \in VentureSlugs \cup {UnknownSlug} :
    /\ Started
    /\ Completed(KeysReq("DELETE", slug, KeysBody(NoKey, UNSET), 200))
    /\ ventures' =
         IF VentureBySlug(ventures, slug) = NULL
           THEN ventures
           ELSE [ventures EXCEPT ![slug] =
                   [stripe_secret_key |-> NULL,
                    stripe_webhook_secret |-> NULL]]
    /\ UNCHANGED <<tables, remote, trk, hook, limit>>

\* the plans of a setup request: none, or the Starter tier
SetupPlans == {<<>>, <<"Starter">>}

\* part_010, lines 83-159: the product of each plan and its monthly and
\* yearly price are created in the Stripe account unless they exist
RECURSIVE WithPlans(_, _)
WithPlans(acc, plns) ==
  IF plns = <<>> THEN acc
  ELSE LET product == Product("prod_" \o Head(plns))
           monthly == Price("price_m_" \o Head(plns), product.id)
           yearly == Price("price_y_" \o Head(plns), product.id)
           Missing(list, x) == IF \E i \in 1..Len(list) : list[i] = x
                                 THEN <<>> ELSE <<x>>
       IN WithPlans(
            [acc EXCEPT
               !.products = @ \o Missing(@, product),
               !.prices = @ \o Missing(@, monthly)
                            \o Missing(@ \o Missing(@, monthly), yearly)],
            Tail(plns))

\* the signing secret Stripe issues for the endpoint of a venture
EndpointSecret(slug) == "whsec_" \o slug

SetupReq(slug, plns, resp, created) ==
  [kind |-> "setup", slug |-> slug, body |-> plns, resp |-> resp,
   webhookCreated |-> created]

\* part_010, lines 40-211.  A Stripe call that throws (the first one does,
\* with a key Stripe rejects) ends the request with 500.
SetupStripe ==
  \E slug \in VentureSlugs \cup {UnknownSlug}, plns \in SetupPlans,
     thrown \in BOOLEAN :
    /\ Started
    /\ UNCHANGED <<tables, trk, hook, limit>>
    /\ IF VentureBySlug(ventures, slug) = NULL
         THEN /\ Completed(SetupReq(slug, plns, 404, FALSE))
              /\ UNCHANGED <<ventures, remote>>
       ELSE IF Falsy(ventures[slug].stripe_secret_key)
         THEN /\ Completed(SetupReq(slug, plns, 400, FALSE))
              /\ UNCHANGED <<ventures, remote>>
       ELSE IF thrown
         THEN /\ Completed(SetupReq(slug, plns, 500, FALSE))
              /\ UNCHANGED <<ventures, remote>>
       ELSE LET acc == WithPlans(remote[slug], plns)
                created == acc.endpoint = NULL
            IN /\ remote' =
                    [remote EXCEPT ![slug] =
                       IF created
                         THEN [acc EXCEPT !.endpoint = EndpointSecret(slug)]
                         ELSE acc]
               /\ ventures' =
                    IF created
                      THEN [ventures EXCEPT
                              ![slug].stripe_webhook_secret =
                                EndpointSecret(slug)]
                      ELSE ventures
               /\ Completed(SetupReq(slug, plns, 200, created))

\* the operator's key management and the deliveries of Stripe
NextKeys ==
  \/ KeysSave /\ UNCHANGED <<cvars, fvars>>
  \/ KeysDelete /\ UNCHANGED <<cvars, fvars>>
  \/ SetupStripe /\ UNCHANGED <<cvars, fvars>>
  \/ HookLookup /\ UNCHANGED <<cvars, fvars>>
  \/ HookVerify /\ UNCHANGED <<cvars, fvars>>
  \/ HookSubscriptionChange /\ UNCHANGED <<cvars, fvars>>
  \/ HookSubscriptionDeleted /\ UNCHANGED <<cvars, fvars>>
  \/ HookInvoicePaid /\ UNCHANGED <<cvars, fvars>>
  \/ HookPaymentFailed /\ UNCHANGED <<cvars, fvars>>
  \/ HookProductChange /\ UNCHANGED <<cvars, fvars>>
  \/ HookPriceChange /\ UNCHANGED <<cvars, fvars>>
  \/ HookUnhandled /\ UNCHANGED <<cvars, fvars>>

MaxKeyOps == 3

\* venture a with the secret key its operator entered, venture b as created
InitKeys ==
  /\ ventures = [s \in VentureSlugs |->
                   [stripe_secret_key |->
                      IF s = "a" THEN "sk_test_a" ELSE NULL,
                    stripe_webhook_secret |-> NULL]]
  /\ remote = [s \in VentureSlugs |-> Account1]
  /\ signups = <<>> /\ revenue = EmptyBag /\ events = EmptyBag
  /\ plans = {} /\ prices = {} /\ subscriptions = {}
  /\ trk = [p \in 1..2 |-> [pc |-> "idle"]]
  /\ hook = [pc |-> "idle"]
  /\ lastReq = [kind |-> "none"]
  /\ nOps = 0 /\ nDone = 0
  /\ limit = MaxKeyOps
  /\ FetchIdle /\ ClassifyIdle
SpecKeys == InitKeys /\ [][NextKeys]_vars

\* ------------------------------------------------------------------------
\* app/dashboard/page.tsx (part_012, lines 10-106)
\* ------------------------------------------------------------------------
MaxPageLoads == 2
MaxSignupRows == 2

\* what the provider returns for a venture's key, as the fetcher sees it:
\* a subscription business, one-time charges only, and an empty account
PageAccounts ==
  LET paid == [amount |-> 50000, paid |-> TRUE, refunded |-> FALSE]
  IN {[products |-> 1, prices |-> <<StripePrice("month")>>,
       subscriptions |-> <<<<StripePrice("month")>>>>, customers |-> 1,
       cancelled |-> 0, charges |-> <<paid>>],
      [products |-> 1, prices |-> <<StripePrice("month")>>,
       subscriptions |-> <<>>, customers |-> 0,
       cancelled |-> 0, charges |-> <<paid>>],
      [products |-> 0, prices |-> <<>>,
       subscriptions |-> <<>>, customers |-> 0,
       cancelled |-> 0, charges |-> <<>>]}

\* lines 61-89: one entry of ventureStats (the fields the totals read)
VentureStats(slug, result, rows) ==
  LET d == result.data
  IN [slug |-> slug,
      total_revenue |-> IF d = NullData THEN Rat(0, 1) ELSE d.totalRevenue,
      mrr |-> IF d = NullData THEN Rat(0, 1) ELSE d.mrr,
      arr |-> IF d = NullData THEN Rat(0, 1)
              ELSE Rat(d.mrr.num * 12, d.mrr.den),
      total_signups |->
        Cardinality({i \in DOMAIN rows : rows[i].venture_id = slug}),
      paid_customers |-> IF d = NullData THEN 0 ELSE d.activeSubscriptions,
      stripe_status |-> result.status.status]

\* the totals summed over every venture
TotalsOfAll(stats) ==
  LET RECURSIVE Sum(_, _)
      Sum(vs, f) ==
        IF vs = <<>> THEN Rat(0, 1) ELSE Plus(Head(vs)[f], Sum(Tail(vs), f))
      RECURSIVE Count(_, _)
      Count(vs, f) ==
        IF vs = <<>> THEN 0 ELSE Head(vs)[f] + Count(Tail(vs), f)
  IN [totalRevenue |-> Sum(stats, "total_revenue"),
      mrr |-> Sum(stats, "mrr"),
      arr |-> Sum(stats, "arr"),
      totalSignups |-> Count(stats, "total_signups"),
      paidCustomers |-> Count(stats, "paid_customers"),
      trialingCustomers |-> 0]
\* lines 94-103
Totals(stats) ==
  LET IsReady(v) == v.stripe_status = "ready"
      connectedVentures == SelectSeq(stats, IsReady)
      RECURSIVE Sum(_, _)
      Sum(vs, f) ==
        IF vs = <<>> THEN Rat(0, 1) ELSE Plus(Head(vs)[f], Sum(Tail(vs), f))
      RECURSIVE Count(_, _)
      Count(vs, f) ==
        IF vs = <<>> THEN 0 ELSE Head(vs)[f] + Count(Tail(vs), f)
  IN [totalRevenue |-> Sum(connectedVentures, "total_revenue"),
      mrr |-> Sum(connectedVentures, "mrr"),
      arr |-> Sum(connectedVentures, "arr"),
      totalSignups |-> Count(stats, "total_signups"),
      paidCustomers |-> Count(connectedVentures, "paid_customers"),
      trialingCustomers |-> 0]

\* One rendering of the page: the ventures (newest first), one snapshot and
\* one signups query per venture, then the totals.
DashboardPage ==
  /\ Started
  /\ \E thrown \in [VentureSlugs -> {NoText} \cup ErrorMessages] :
       LET order == <<"b", "a">>
           stats ==
             [i \in DOMAIN order |->
                VentureStats(
                  order[i],
                  fetchVentureStripeData(
                    ventures[order[i]].stripe_secret_key,
                    ventures[order[i]].stripe_webhook_secret,
                    remote[order[i]], thrown[order[i]]),
                  signups)]
       IN Completed([kind |-> "page", body |-> stats,
                     resp |-> Totals(stats), seq |-> TRUE])
  /\ UNCHANGED <<ventures, tables, remote, trk, hook, limit>>

NextPage == DashboardPage /\ UNCHANGED <<cvars, fvars>>

\* ventures with any combination of keys, each key opening one of the
\* accounts, and up to MaxSignupRows tracked signups
InitPage ==
  /\ ventures \in [VentureSlugs ->
                     [stripe_secret_key : {NULL, "sk_test_a"},
                      stripe_webhook_secret : {NULL, "whsec_a"}]]
  /\ remote \in [VentureSlugs -> PageAccounts]
  /\ signups \in SeqUpTo({[SeedSignup EXCEPT !.venture_id = s] :
                            s \in VentureSlugs}, MaxSignupRows)
  /\ revenue = EmptyBag /\ events = EmptyBag
  /\ plans = {} /\ prices = {} /\ subscriptions = {}
  /\ trk = [p \in 1..2 |-> [pc |-> "idle"]]
  /\ hook = [pc |-> "idle"]
  /\ lastReq = [kind |-> "none"]
  /\ nOps = 0 /\ nDone = 0
  /\ limit = MaxPageLoads
  /\ FetchIdle /\ ClassifyIdle

SpecPage == InitPage /\ [][NextPage]_vars

NextClassify ==
  \/ Classify /\ UNCHANGED <<fvars, svars>>
  \/ ClassifyAgain /\ UNCHANGED <<fvars, svars>>

NextFetch ==
  \/ FetchStart /\ UNCHANGED <<cvars, svars>>
  \/ FetchCharges /\ UNCHANGED <<cvars, svars>>
  \/ FetchCancelled /\ UNCHANGED <<cvars, svars>>

InitClassify == ClassifyInit /\ FetchIdle /\ StoreIdle
InitFetch == FetchInit /\ ClassifyIdle /\ StoreIdle

SpecClassify == InitClassify /\ [][NextClassify]_vars
SpecFetch == InitFetch /\ [][NextFetch]_vars

\* an invocation with both keys on one of the accounts of MetricsAccounts
InitMetrics ==
  /\ fKey = "sk_test_1"
  /\ fWhsec = "whsec_1"
  /\ fRemote \in MetricsAccounts
  /\ fpc = "start" /\ fCalls = 0 /\ fThrown = NoText /\ fResult = Pending
  /\ ClassifyIdle /\ StoreIdle
SpecMetrics == InitMetrics /\ [][NextFetch]_vars

\* ------------------------------------------------------------------------
\* Properties of the classifier and the fetcher
\* ------------------------------------------------------------------------
\* C1: getStripeStatus returns exactly one status for every config, chosen
\* by first match: needs_stripe_key when the secret key is absent; else
\* needs_webhook_secret when the webhook secret is absent; else error, with
\* the error text as details, when an error is set; else no_products when
\* hasProducts is false; else no_data when hasSubscriptions is false; else
\* ready.
ClassifierPriority ==
  cpc = "done" /\ cResult # Pending =>
    LET k == ~Falsy(cConfig.stripeSecretKey)
        w == ~Falsy(cConfig.stripeWebhookSecret)
        e == ~FalsyText(cConfig.error)
        p == cConfig.hasProducts # "false"
        s == cConfig.hasSubscriptions # "false"
        st == cResult.status
    IN /\ st \in StatusNames
       /\ (st = "needs_stripe_key") <=> ~k
       /\ (st = "needs_webhook_secret") <=> (k /\ ~w)
       /\ (st = "error") <=> (k /\ w /\ e)
       /\ (st = "error") => cResult.details = cConfig.error
       /\ (st = "no_products") <=> (k /\ w /\ ~e /\ ~p)
       /\ (st = "no_data") <=> (k /\ w /\ ~e /\ p /\ ~s)
       /\ (st = "ready") <=> (k /\ w /\ ~e /\ p /\ s)

\* the boundary case where only the order of the webhook and error tests
\* decides: key present, webhook secret absent, error set
ClassifierPriorityWitness ==
  /\ cpc = "done" /\ cResult # Pending
  /\ ~Falsy(cConfig.stripeSecretKey)
  /\ Falsy(cConfig.stripeWebhookSecret)
  /\ ~FalsyText(cConfig.error)
  /\ cConfig.hasProducts = "false"
  /\ cResult.status = "needs_webhook_secret"

\* C9: an invocation with an absent (null or empty) secret key returns
\* needs_stripe_key with data null, and has issued no provider call.
NoKeyNoRemoteCall ==
  Falsy(fKey) /\ fpc = "done" /\ fResult # Pending =>
    /\ fResult.status.status = "needs_stripe_key"
    /\ fResult.data = NullData
    /\ fCalls = 0

NoKeyNoRemoteCallWitness ==
  /\ fKey = "" /\ fpc = "done" /\ fResult # Pending
  /\ fRemote.products > 0
  /\ fResult.status.status = "needs_stripe_key"

\* C10: when a provider call of the invocation throws, the invocation still
\* returns: status error, data null, message Invalid Stripe Key when the
\* error text contains the invalid-key signature, and otherwise Stripe Error
\* with the raw message as details.
RemoteFailureDegrades ==
  fThrown # NoText =>
    /\ fpc = "done" /\ fResult # Pending
    /\ fResult.status.status = "error"
    /\ fResult.data = NullData
    /\ IF Includes(fThrown, InvalidKeySignature)
         THEN fResult.status.message = "Invalid Stripe Key"
         ELSE /\ fResult.status.message = "Stripe Error"
              /\ fResult.status.details = fThrown

\* the last provider call of an invocation throws an error whose text has
\* the three words of the signature, but not in order
RemoteFailureDegradesWitness ==
  /\ fThrown = <<"API", "Key", "Invalid">>
  /\ fCalls = 6
  /\ fResult # Pending
  /\ fResult.status.message = "Stripe Error"

\* the invocation has returned without a provider call throwing
Returned ==
  /\ fpc = "done" /\ fResult # Pending /\ fThrown = NoText
  /\ ~KeyMissing(fKey)

\* C11: an invocation with a secret key whose provider calls succeed and
\* report zero active products returns status no_products with data null,
\* whether or not a webhook secret is configured.
NoProductsWhateverWebhookSecret ==
  Returned /\ fRemote.products = 0 =>
    /\ fResult.status.status = "no_products"
    /\ fResult.data = NullData

\* C12: with both keys, at least one active product, no active
\* subscription and no customer, the invocation returns no_data with data
\* not null, mrr 0, activeSubscriptions 0 and totalRevenue the sum, in
\* currency units, of the charges that are paid and not refunded.
NoDataKeepsOneTimeRevenue ==
  /\ Returned /\ ~Falsy(fWhsec)
  /\ fRemote.products > 0
  /\ fRemote.subscriptions = <<>> /\ fRemote.customers = 0
  => LET cs == fRemote.charges
         RECURSIVE cents(_)
         cents(n) ==
           IF n = 0 THEN 0
           ELSE cents(n - 1)
                + (IF cs[n].paid /\ ~cs[n].refunded THEN cs[n].amount
                   ELSE 0)
         d == fResult.data
     IN /\ fResult.status.status = "no_data"
        /\ d # NullData
        /\ d.mrr = Rat(0, 1)
        /\ d.activeSubscriptions = 0
        /\ d.totalRevenue.num * 100 = cents(Len(cs)) * d.totalRevenue.den

\* no_data with 500 of one-time revenue: one charge paid, one refunded
NoDataKeepsOneTimeRevenueWitness ==
  /\ Returned /\ ~Falsy(fWhsec)
  /\ fRemote.products > 0
  /\ fRemote.subscriptions = <<>> /\ fRemote.customers = 0
  /\ Len(fRemote.charges) = 2
  /\ fRemote.charges[1] = [amount |-> 50000, paid |-> TRUE,
                           refunded |-> FALSE]
  /\ fRemote.charges[2].refunded
  /\ fResult.status.status = "no_data"
  /\ fResult.data.totalRevenue = Rat(500, 1)

\* C18: the mrr of a returned snapshot is the sum, over the line items of
\* the active subscriptions, of the unit amount divided by 12 for a yearly
\* interval, multiplied by 4 for a weekly one and unchanged otherwise,
\* divided by 100 (1200 * mrr is the sum of amount, 48 * amount and
\* 12 * amount respectively).
MrrNormalization ==
  Returned /\ fResult.data # NullData =>
    LET subs == fRemote.subscriptions
        w(p) == CASE p.interval = "year" -> p.unit_amount
                  [] p.interval = "week" -> 48 * p.unit_amount
                  [] OTHER -> 12 * p.unit_amount
        RECURSIVE ofItems(_, _)
        ofItems(sub, k) ==
          IF k = 0 THEN 0 ELSE w(sub[k]) + ofItems(sub, k - 1)
        RECURSIVE ofSubs(_)
        ofSubs(n) ==
          IF n = 0 THEN 0
          ELSE ofItems(subs[n], Len(subs[n])) + ofSubs(n - 1)
        mrr == fResult.data.mrr
    IN mrr.num * 1200 = ofSubs(Len(subs)) * mrr.den

\* 5000 a month and 120000 a year on one subscription, 2500 a week on
\* another: 50 + 100 + 100
MrrNormalizationWitness ==
  /\ Returned
  /\ fRemote.subscriptions =
       <<<<StripePrice("month"), StripePrice("year")>>,
         <<StripePrice("week")>>>>
  /\ fResult.status.status = "ready"
  /\ fResult.data.mrr = Rat(250, 1)

SubscribersToTargetOfAverage ==
  Returned /\ fResult.data # NullData =>
    LET subs == fRemote.subscriptions
        rec == SelectSeq(fRemote.prices, LAMBDA p : p.interval # NULL)
        RECURSIVE sum(_)
        sum(k) ==
          IF k = 0 THEN Rat(0, 1)
          ELSE Plus(Over(MonthlyAmount(rec[k]), Rat(100, 1)), sum(k - 1))
        avg == IF Len(subs) > 0
                 THEN Over(Mrr(LineItems(subs)), Rat(Len(subs), 1))
               ELSE IF Len(rec) > 0
                 THEN Over(sum(Len(rec)), Rat(Len(rec), 1))
               ELSE Rat(0, 1)
        needed == IF avg.num > 0
                    THEN (1000000 * avg.den + 12 * avg.num - 1)
                           \div (12 * avg.num)
                    ELSE 0
    IN fResult.data.subscribersToTarget = needed

\* C21: the plans of a returned snapshot hold one row per active recurring
\* price; the row's price is the monthly equivalent of the price under the
\* normalization of the MRR (yearly / 12, weekly * 4, in currency units),
\* its activeCount the number of line items of active subscriptions on the
\* price, and the rows are in descending order of activeCount.
PlanBreakdown ==
  Returned /\ fResult.data # NullData =>
    LET rec == SelectSeq(fRemote.prices, LAMBDA p : p.interval # NULL)
        items == LineItems(fRemote.subscriptions)
        rows == fResult.data.plans
        ids == {rec[i].id : i \in DOMAIN rec}
        on(id) == Cardinality({k \in DOMAIN items : items[k].id = id})
    IN /\ Len(rows) = Len(rec)
       /\ \A id \in ids :
            Cardinality({i \in DOMAIN rows : rows[i].id = id})
              = Cardinality({i \in DOMAIN rec : rec[i].id = id})
       /\ \A i \in DOMAIN rows :
            /\ rows[i].id \in ids
            /\ rows[i].activeCount = on(rows[i].id)
            /\ \E k \in DOMAIN rec :
                 /\ rec[k].id = rows[i].id
                 /\ rows[i].price =
                      Over(MonthlyAmount(rec[k]), Rat(100, 1))
       /\ \A i, j \in DOMAIN rows :
            i < j => rows[i].activeCount >= rows[j].activeCount

\* ------------------------------------------------------------------------
\* Properties of the tracking endpoints
\* ------------------------------------------------------------------------
\* C8: a tracking request that misses venture or event, or the field its
\* event type requires (email for signup, subscription, churn, trial_start,
\* trial_end; amount for payment) is answered 400, one whose slug matches no
\* venture is answered 404 (a request that does both gets one of the two),
\* and the step that answers it leaves signups, revenue, events and
\* ventures unchanged.
RejectedTrackingWritesNothing ==
  [][(nDone' = nDone + 1 /\ lastReq'.kind = "track") =>
      LET b == lastReq'.body
          r == lastReq'.resp
          missing == \/ b.venture \in {NULL, UNSET}
                     \/ b.event \in {NULL, UNSET}
                     \/ b.event \in EmailEvents /\ b.email \in {NULL, UNSET}
                     \/ b.event = "payment" /\ ~b.amount.given
          unknown == /\ b.venture \notin {NULL, UNSET}
                     /\ b.venture \notin DOMAIN ventures
      IN /\ missing /\ ~unknown => r = 400
         /\ unknown /\ ~missing => r = 404
         /\ missing \/ unknown =>
              /\ r \in {400, 404}
              /\ UNCHANGED <<signups, revenue, events, ventures>>]_vars

\* a request rejected while the store holds rows
RejectedTrackingWritesNothingWitness ==
  /\ lastReq.kind = "track"
  /\ lastReq.resp \in {400, 404}
  /\ signups # <<>>
  /\ events # EmptyBag

\* C4: in every reachable state there is at most one signup row per
\* (venture, email).
SignupUniquePerVentureEmail ==
  \A i, j \in DOMAIN signups :
    signups[i].venture_id = signups[j].venture_id
      /\ signups[i].email = signups[j].email => i = j

\* C3: when the same signup tracking request is answered twice in a row,
\* the second one running against the store the first one left, exactly one
\* signup row exists for its (venture, email) and the row carries the
\* name, plan, status and source of the request.
SignupTwiceLeavesOneRow ==
  [][(/\ nDone' = nDone + 1
      /\ lastReq' = lastReq
      /\ lastReq'.kind = "track"
      /\ lastReq'.resp = 200
      /\ lastReq'.seq
      /\ lastReq'.body.event = "signup") =>
      LET b == lastReq'.body
          ids == SignupIds(signups', b.venture, b.email)
      IN /\ Cardinality(ids) = 1
         /\ \A i \in ids :
              /\ signups'[i].name = SignupFields(b).name
              /\ signups'[i].plan = SignupFields(b).plan
              /\ signups'[i].status = SignupFields(b).status
              /\ signups'[i].source = SignupFields(b).source]_vars

\* C5: when a tracking request of type signup, subscription, payment,
\* churn, trial_start or trial_end is answered twice in a row, the second
\* application leaves the signups and the revenue rows as the first one
\* left them.
TrackingReplayChangesNothing ==
  [][(/\ nDone' = nDone + 1
      /\ lastReq' = lastReq
      /\ lastReq'.kind = "track"
      /\ lastReq'.resp = 200
      /\ lastReq'.seq
      /\ lastReq'.body.event \in TrackEvents) =>
      signups' = signups /\ revenue' = revenue]_vars

\* ------------------------------------------------------------------------
\* Properties of the webhook receiver and the sync passes
\* ------------------------------------------------------------------------
\* C2: a webhook delivery first resolves the venture and its signing
\* secret by the slug, then verifies the signature with that secret, and
\* only a step that follows a successful verification changes a table; a
\* delivery whose venture is missing or unconfigured, or whose signature
\* does not verify (also when the venture has no webhook secret), is
\* answered with an error and leaves plans, prices, subscriptions, signups,
\* revenue and events unchanged.
WebhookVerifiesBeforeWrite ==
  [][/\ hook'.pc = "looked" /\ hook.pc # "looked" =>
          /\ hook.pc = "idle"
          /\ hook'.body.venture \in DOMAIN ventures
          /\ hook'.secret =
               ventures[hook'.body.venture].stripe_webhook_secret
     /\ hook'.pc = "verified" /\ hook.pc # "verified" =>
          /\ hook.pc = "looked"
          /\ hook'.body = hook.body
          /\ hook.secret # NULL
          /\ hook.body.sig = hook.secret
          /\ UNCHANGED tables
     /\ hook' # hook /\ tables' # tables => hook.pc = "verified"
     /\ nDone' = nDone + 1 /\ lastReq'.kind = "hook" =>
          LET d == lastReq'.body
              unconfigured ==
                IF d.venture \in DOMAIN ventures
                  THEN Falsy(ventures[d.venture].stripe_secret_key)
                  ELSE TRUE
              unverified ==
                IF unconfigured THEN FALSE
                ELSE LET secret ==
                           IF hook.pc = "idle"
                             THEN ventures[d.venture].stripe_webhook_secret
                             ELSE hook.secret
                     IN secret = NULL \/ d.sig = NULL \/ d.sig # secret
          IN unconfigured \/ unverified =>
               /\ lastReq'.resp \in {400, 404}
               /\ UNCHANGED tables]_vars

\* a delivery for the venture without webhook secret was turned down while
\* the store holds rows
WebhookVerifiesBeforeWriteWitness ==
  /\ lastReq.kind = "hook"
  /\ lastReq.resp = 400
  /\ lastReq.body.venture = "b"
  /\ events # EmptyBag

\* C6: when a customer.subscription.deleted delivery is answered for a
\* subscription that has a local row and a signup with the customer's
\* email, that signup is churned afterwards; and when the delivery is the
\* second of two identical ones in a row, exactly one churn event refers to
\* the subscription.
ChurnOnceOnDuplicateDelivery ==
  [][(/\ nDone' = nDone + 1
      /\ lastReq'.kind = "hook"
      /\ lastReq'.resp = 200
      /\ lastReq'.body.event.type = "customer.subscription.deleted"
      /\ \E x \in subscriptions :
           /\ x.stripe_subscription_id = lastReq'.body.event.id
           /\ x.venture_id = lastReq'.body.venture
      /\ SignupIds(signups, lastReq'.body.venture,
                   lastReq'.body.event.email) # {}) =>
      LET d == lastReq'.body
      IN /\ \A i \in SignupIds(signups', d.venture, d.event.email) :
              signups'[i].status = "churned"
         /\ lastReq' = lastReq /\ lastReq'.seq =>
              CopiesIn(Event(d.venture, "churn", NULL, d.event.id),
                       events') = 1]_vars

\* C7: when a sync pass is answered right after an identical one, the
\* numbers of plan, price and subscription rows are the ones the first pass
\* left, the counts it reports are the numbers of rows of the venture, and
\* no charge that already has a revenue row of its payment id gets another.
SyncTwiceChangesNothing ==
  [][(/\ nDone' = nDone + 1
      /\ lastReq' = lastReq
      /\ lastReq'.kind \in {"sync", "adminSync"}
      /\ lastReq'.resp = 200) =>
      LET v == lastReq'.body.venture
          rows(tbl) == Cardinality({x \in tbl : x.venture_id = v})
          recorded(bag, pid) ==
            BagCardinality([r \in RevenueWithPayment(bag, pid) |->
                              CopiesIn(r, bag)])
      IN /\ Cardinality(plans') = Cardinality(plans)
         /\ Cardinality(prices') = Cardinality(prices)
         /\ Cardinality(subscriptions') = Cardinality(subscriptions)
         /\ lastReq'.synced.plans = rows(plans')
         /\ lastReq'.synced.prices = rows(prices')
         /\ lastReq'.synced.subscriptions = rows(subscriptions')
         /\ \A i \in DOMAIN remote[v].charges :
              recorded(revenue, remote[v].charges[i].id) > 0 =>
                recorded(revenue', remote[v].charges[i].id) =
                  recorded(revenue, remote[v].charges[i].id)]_vars

\* ------------------------------------------------------------------------
\* Properties of the dashboard page
\* ------------------------------------------------------------------------
\* C13: the totals of a rendered page: totalRevenue, mrr, arr and
\* paidCustomers are the sums, over exactly the ventures whose snapshot
\* status is ready, of the snapshot's totalRevenue, mrr, 12 * mrr and
\* activeSubscriptions, and totalSignups is the number of signup rows of
\* all ventures, whatever their status.
PortfolioTotals ==
  lastReq.kind = "page" =>
    LET st == lastReq.body
        t == lastReq.resp
        at(s) == st[CHOOSE i \in DOMAIN st : st[i].slug = s]
        ready(s) == at(s).stripe_status = "ready"
        part(s, f) == IF ready(s) THEN at(s)[f] ELSE Rat(0, 1)
        count(s) == IF ready(s) THEN at(s).paid_customers ELSE 0
        rows(s) == {i \in DOMAIN signups : signups[i].venture_id = s}
    IN /\ Len(st) = 2 /\ {st[i].slug : i \in DOMAIN st} = VentureSlugs
       /\ t.totalRevenue = Plus(part("a", "total_revenue"),
                                part("b", "total_revenue"))
       /\ t.mrr = Plus(part("a", "mrr"), part("b", "mrr"))
       /\ t.arr = Plus(part("a", "arr"), part("b", "arr"))
       /\ t.paidCustomers = count("a") + count("b")
       /\ t.totalSignups = Cardinality(rows("a")) + Cardinality(rows("b"))
       /\ \A s \in VentureSlugs :
            /\ at(s).total_signups = Cardinality(rows(s))
            /\ ready(s) =>
                 LET m == Mrr(LineItems(remote[s].subscriptions))
                 IN /\ at(s).mrr = m
                    /\ at(s).arr = Rat(m.num * 12, m.den)
                    /\ at(s).total_revenue = SumPaid(remote[s].charges)
                    /\ at(s).paid_customers = Len(remote[s].subscriptions)

\* venture a without a secret key has a signup, venture b is ready with a
\* subscription of 50 a month: a's signup is counted, only b's figures are
PortfolioTotalsWitness ==
  /\ lastReq.kind = "page"
  /\ ventures["a"].stripe_secret_key = NULL
  /\ \E i \in DOMAIN signups : signups[i].venture_id = "a"
  /\ \E i \in DOMAIN lastReq.body :
       /\ lastReq.body[i].slug = "a"
       /\ lastReq.body[i].stripe_status = "needs_stripe_key"
  /\ \E i \in DOMAIN lastReq.body :
       /\ lastReq.body[i].slug = "b"
       /\ lastReq.body[i].stripe_status = "ready"
  /\ lastReq.resp.mrr = Rat(50, 1)
  /\ lastReq.resp.arr = Rat(600, 1)
  /\ lastReq.resp.totalRevenue = Rat(500, 1)
  /\ lastReq.resp.totalSignups = Len(signups)

\* ------------------------------------------------------------------------
\* Properties of the store under all writers
\* ------------------------------------------------------------------------
\* C14: no step of a tracking call, a webhook delivery or a sync pass
\* updates or deletes a revenue or an event row: every row present before
\* the step is present after it, with the same field values and as often.
RevenueEventsAppendOnly ==
  [][/\ revenue \sqsubseteq revenue'
     /\ events \sqsubseteq events']_vars

\* a webhook delivery has added a revenue row to the one a tracking call
\* had added, and the store holds events
RevenueEventsAppendOnlyWitness ==
  /\ nDone = 2
  /\ lastReq.kind = "hook"
  /\ BagCardinality(revenue) = 2
  /\ BagCardinality(events) >= 2

\* C15: every subscription row whose price_id is set references a price
\* row that exists and has the venture_id of the subscription row.
SubscriptionPriceSameVenture ==
  \A s \in subscriptions :
    ~Falsy(s.price_id) =>
      \E p \in prices : p.id = s.price_id /\ p.venture_id = s.venture_id

\* C16: when a provider call of a sync pass throws, the steps after it do
\* not run (no later upsert, no stripe_sync event), the rows upserted
\* before it remain, and the response is 401 for an authentication failure
\* and 500 for any other failure.
SyncFailureAborts ==
  [][(/\ nDone' = nDone + 1
      /\ lastReq'.kind \in {"sync", "adminSync"}
      /\ lastReq'.resp \notin {400, 403, 404}
      /\ lastReq'.body.fail # "none" \/ ~lastReq'.body.retrieved) =>
       LET b == lastReq'.body
           listed == IF b.fail = "none" THEN "customers" ELSE b.fail
       IN /\ lastReq'.resp = IF b.fail = "auth" THEN 401 ELSE 500
          /\ events' = events
          /\ listed \in {"auth", "products"} => plans' = plans
          /\ listed \in {"auth", "products", "prices"} => prices' = prices
          /\ listed # "charges" =>
               UNCHANGED <<subscriptions, signups, revenue>>
          /\ listed = "charges" => revenue' = revenue
          /\ \A r \in plans : \E x \in plans' : x.id = r.id
          /\ \A r \in prices : \E x \in prices' : x.id = r.id
          /\ listed \in {"prices", "subscriptions", "customers",
                         "charges"} =>
               \A i \in DOMAIN remote[b.venture].products :
                 \E x \in plans' :
                   /\ x.stripe_product_id =
                        remote[b.venture].products[i].id
                   /\ x.venture_id = b.venture]_vars

\* the same for the venture sync route of part_007 alone
VentureSyncFailureAborts ==
  [][(/\ nDone' = nDone + 1
      /\ lastReq'.kind = "sync"
      /\ lastReq'.body.fail # "none") =>
       LET b == lastReq'.body
       IN /\ lastReq'.resp = IF b.fail = "auth" THEN 401 ELSE 500
          /\ events' = events
          /\ b.fail \in {"auth", "products"} => plans' = plans
          /\ b.fail \in {"auth", "products", "prices"} => prices' = prices
          /\ UNCHANGED <<subscriptions, signups, revenue>>
          /\ \A r \in plans : \E x \in plans' : x.id = r.id
          /\ \A r \in prices : \E x \in prices' : x.id = r.id
          /\ b.fail \in {"prices", "subscriptions"} =>
               \A i \in DOMAIN remote[b.venture].products :
                 \E x \in plans' :
                   /\ x.stripe_product_id =
                        remote[b.venture].products[i].id
                   /\ x.venture_id = b.venture]_vars

\* C17: no version check guards the status of a signup: the step that
\* completes a churn tracking call leaves every signup of its (venture,
\* email) churned, and the step that completes a subscription webhook whose
\* status the table accepts leaves the signup of the customer's email with
\* the status of the event, whatever was stored and whichever request
\* arrived first; the write applied last wins.
StatusLastWriteWins ==
  [][nDone' = nDone + 1 =>
      LET r == lastReq'
      IN /\ (r.kind = "track" /\ r.resp = 200 /\ r.body.event = "churn") =>
              \A i \in DOMAIN signups :
                (/\ signups[i].venture_id = r.body.venture
                 /\ signups[i].email = r.body.email) =>
                  signups'[i].status = "churned"
         /\ (/\ r.kind = "hook" /\ r.resp = 200
             /\ r.body.event.type \in {"customer.subscription.created",
                                       "customer.subscription.updated"}
             /\ r.body.event.status \in SignupStatusCheck
             /\ ~Falsy(r.body.event.email)) =>
              LET m == {i \in DOMAIN signups :
                          /\ signups[i].venture_id = r.body.venture
                          /\ signups[i].email = r.body.event.email}
              IN Cardinality(m) = 1 =>
                   \A i \in m : signups'[i].status = r.body.event.status]_vars

\* the older status has overwritten the newer one: a subscription webhook
\* with status active was received first, a churn tracking call for the
\* same (venture, email) was answered while the webhook was in flight, and
\* the webhook's write came last, so the signup is active again
StatusLastWriteWinsWitness ==
  /\ nDone = 2
  /\ lastReq.kind = "hook" /\ ~lastReq.seq
  /\ lastReq.body.event.status = "active"
  /\ lastReq.body.event.email = "e1"
  /\ BagIn(Event("a", "churn", "e1", NULL), events)
  /\ Len(signups) = 1
  /\ signups[1].email = "e1" /\ signups[1].status = "active"

\* C22: a payment tracking call for a known venture is answered 400 and
\* writes nothing when its amount is absent, zero or negative; otherwise it
\* is accepted and adds exactly one revenue row of the venture with the
\* amount and exactly one payment event.
PaymentNeedsPositiveAmount ==
  [][(/\ nDone' = nDone + 1
      /\ lastReq'.kind = "track"
      /\ lastReq'.body.event = "payment"
      /\ lastReq'.body.venture \in DOMAIN ventures) =>
       LET b == lastReq'.body
       IN IF ~b.amount.given \/ b.amount.value <= 0
            THEN /\ lastReq'.resp = 400
                 /\ UNCHANGED <<signups, revenue, events>>
            ELSE /\ lastReq'.resp = 200
                 /\ BagCardinality(revenue') = BagCardinality(revenue) + 1
                 /\ \E r \in BagToSet(revenue') :
                      /\ r.venture_id = b.venture
                      /\ r.amount = b.amount.value
                      /\ CopiesIn(r, revenue') = CopiesIn(r, revenue) + 1
                 /\ BagCardinality(events') = BagCardinality(events) + 1
                 /\ \E e \in BagToSet(events') :
                      /\ e.venture_id = b.venture /\ e.type = "payment"
                      /\ CopiesIn(e, events') = CopiesIn(e, events) + 1]_vars

\* C23: a save request to the billing-keys endpoint whose secret key is
\* missing or does not start with sk_live_ or sk_test_ is answered 400 and
\* leaves the stored credentials unchanged; an accepted save stores the
\* submitted secret key on the venture with that slug; a delete request
\* leaves both stored credentials of the venture null, and the classifier
\* then yields needs_stripe_key for it whatever the other facts are.
BillingKeysEndpoint ==
  [][(nDone' = nDone + 1 /\ lastReq'.kind = "keys") =>
       LET r == lastReq'
           k == r.body.stripe_secret_key
       IN IF r.method = "POST"
            THEN /\ (\/ ~k.given
                     \/ KeyText(k) = ""
                     \/ k.head \notin {"sk_live_", "sk_test_"}) =>
                       (r.resp = 400 /\ UNCHANGED ventures)
                 /\ r.resp = 200 =>
                       /\ r.slug \in DOMAIN ventures
                       /\ ventures'[r.slug].stripe_secret_key = KeyText(k)
            ELSE r.slug \in DOMAIN ventures =>
                   /\ ventures'[r.slug].stripe_secret_key = NULL
                   /\ ventures'[r.slug].stripe_webhook_secret = NULL
                   /\ \A hp, hs \in OptBool, e \in ErrorTexts :
                        getStripeStatus(
                          [stripeSecretKey |->
                             ventures'[r.slug].stripe_secret_key,
                           stripeWebhookSecret |->
                             ventures'[r.slug].stripe_webhook_secret,
                           hasProducts |-> hp, hasSubscriptions |-> hs,
                           error |-> e]).status = "needs_stripe_key"]_vars

\* a venture whose key and webhook secret a setup had completed has both
\* deleted
BillingKeysEndpointWitness ==
  /\ lastReq.kind = "keys"
  /\ lastReq.method = "DELETE"
  /\ lastReq.slug = "a"
  /\ remote["a"].endpoint = "whsec_a"
  /\ ventures["a"].stripe_secret_key = NULL

\* C24: a request to the sync-trigger endpoint for a venture without a
\* stored secret key is answered 401, calls Stripe not at all and writes
\* nothing; a pass in which no Stripe call fails is answered 200 with the
\* counts of plans, prices and subscriptions; a pass in which a Stripe call
\* fails is answered 500.
SyncResponseContract ==
  [][(/\ nDone' = nDone + 1
      /\ lastReq'.kind = "sync"
      /\ lastReq'.body.venture \in DOMAIN ventures) =>
       LET r == lastReq'
       IN IF Falsy(ventures[r.body.venture].stripe_secret_key)
            THEN /\ r.resp = 401
                 /\ r.body.fail = "none"
                 /\ UNCHANGED tables
          ELSE IF r.body.fail = "none"
            THEN /\ r.resp = 200
                 /\ DOMAIN r.synced = {"plans", "prices", "subscriptions"}
          ELSE r.resp = 500]_vars

\* C25: a delivery that passed the signature check and whose event type is
\* none of customer.subscription.created/updated/deleted, invoice.paid,
\* invoice.payment_failed, product.created/updated, price.created/updated
\* is answered 200 and leaves plans, prices, subscriptions, signups,
\* revenue and events unchanged.
UnhandledEventIgnored ==
  [][(/\ hook.pc = "verified"
      /\ hook'.pc = "idle"
      /\ hook.body.event.type \notin
           {"customer.subscription.created", "customer.subscription.updated",
            "customer.subscription.deleted", "invoice.paid",
            "invoice.payment_failed", "product.created", "product.updated",
            "price.created", "price.updated"}) =>
       /\ lastReq'.kind = "hook"
       /\ lastReq'.body = hook.body
       /\ lastReq'.resp = 200
       /\ UNCHANGED <<plans, prices, subscriptions, signups, revenue,
                      events>>]_vars

\* a charge.succeeded event signed with the secret of venture a has been
\* answered while the store holds rows
UnhandledEventIgnoredWitness ==
  /\ lastReq.kind = "hook"
  /\ lastReq.resp = 200
  /\ lastReq.body.event.type = "charge.succeeded"
  /\ plans # {}

\* C26: the payment of venture a that Stripe reports as invoice.paid with
\* payment intent pi_1 and lists as charge ch_1 is recorded as revenue at
\* most once, however the webhook deliveries and the sync passes
\* interleave.
PaymentRecordedOnce ==
  LET rows == {r \in BagToSet(revenue) :
                 /\ r.venture_id = "a"
                 /\ r.stripe_payment_id \in {"pi_1", "ch_1"}}
  IN /\ Cardinality(rows) <= 1
     /\ \A r \in rows : CopiesIn(r, revenue) = 1

\* C27: when no provider call fails, the status fetchVentureStripeData
\* returns is the status of the classifier applied to the credentials and
\* to the facts observed (whether the account has products, whether it has
\* subscriptions or customers); in particular it is never ready while the
\* webhook secret is absent.
FetchStatusAgreesWithClassifier ==
  (/\ fpc = "done"
   /\ fResult # Pending
   /\ fThrown = NoText
   /\ ~Falsy(fKey)) =>
    /\ fResult.status.status =
         getStripeStatus(
           [stripeSecretKey |-> fKey, stripeWebhookSecret |-> fWhsec,
            hasProducts |->
              IF fRemote.products = 0 THEN "false" ELSE "true",
            hasSubscriptions |->
              IF Len(fRemote.subscriptions) = 0 /\ fRemote.customers = 0
                THEN "false" ELSE "true",
            error |-> NoText]).status
    /\ Falsy(fWhsec) => fResult.status.status # "ready"

\* C28: a request issued for a venture (a tracking call, a webhook delivery
\* or a sync pass) leaves every plan, price, subscription, signup, revenue
\* and event row of the other ventures as it was.
VentureIsolation ==
  [][\A v \in VentureSlugs :
       (/\ nDone' = nDone + 1
        /\ IF lastReq'.kind = "keyed"
             THEN lastReq'.body.project = v
             ELSE lastReq'.body.venture = v) =>
         /\ {r \in plans' : r.venture_id # v} =
              {r \in plans : r.venture_id # v}
         /\ {r \in prices' : r.venture_id # v} =
              {r \in prices : r.venture_id # v}
         /\ {r \in subscriptions' : r.venture_id # v} =
              {r \in subscriptions : r.venture_id # v}
         /\ \A i \in DOMAIN signups :
              signups[i].venture_id # v => signups'[i] = signups[i]
         /\ \A r \in BagToSet(revenue) \cup BagToSet(revenue') :
              r.venture_id # v => CopiesIn(r, revenue') = CopiesIn(r, revenue)
         /\ \A e \in BagToSet(events) \cup BagToSet(events') :
              e.venture_id # v => CopiesIn(e, events') = CopiesIn(e, events)
    ]_vars

\* C29: in every reachable state the status of every signup row is one of
\* trial, active, churned and paused.
SignupStatusDomain ==
  \A i \in DOMAIN signups :
    signups[i].status \in {"trial", "active", "churned", "paused"}

\* a webhook that reported the status past_due, which the table refuses,
\* has been answered while the signup it named keeps its status
SignupStatusDomainWitness ==
  /\ lastReq.kind = "hook"
  /\ lastReq.resp = 200
  /\ lastReq.body.event.status = "past_due"
  /\ \E i \in DOMAIN signups :
       signups[i].email = lastReq.body.event.email

\* C30: an accepted save of billing keys that carries no webhook secret
\* leaves the stored webhook secret of the venture null, also when a setup
\* had stored one, and the classifier then yields needs_webhook_secret; a
\* delivery for a venture whose stored webhook secret is null fails the
\* signature check, is answered 400 and writes nothing.
SaveWithoutWebhookSecret ==
  [][/\ (/\ nDone' = nDone + 1
         /\ lastReq'.kind = "keys"
         /\ lastReq'.method = "POST"
         /\ lastReq'.resp = 200
         /\ Falsy(lastReq'.body.stripe_webhook_secret)) =>
          /\ ventures'[lastReq'.slug].stripe_webhook_secret = NULL
          /\ \A hp, hs \in OptBool, e \in ErrorTexts :
               getStripeStatus(
                 [stripeSecretKey |->
                    ventures'[lastReq'.slug].stripe_secret_key,
                  stripeWebhookSecret |->
                    ventures'[lastReq'.slug].stripe_webhook_secret,
                  hasProducts |-> hp, hasSubscriptions |-> hs,
                  error |-> e]).status = "needs_webhook_secret"
     /\ (hook.pc = "idle" /\ hook'.pc = "looked") =>
          hook'.secret = ventures[hook'.body.venture].stripe_webhook_secret
     /\ (hook.pc = "looked" /\ hook.secret = NULL /\ hook' # hook) =>
          /\ hook'.pc = "idle"
          /\ lastReq'.kind = "hook"
          /\ lastReq'.body = hook.body
          /\ lastReq'.resp = 400
          /\ UNCHANGED tables]_vars

\* after a setup registered the endpoint of venture a and stored its
\* secret, and a save without a webhook secret, a delivery that Stripe
\* signed with the secret of the endpoint has been answered 400
SaveWithoutWebhookSecretWitness ==
  /\ remote["a"].endpoint = "whsec_a"
  /\ ~Falsy(ventures["a"].stripe_secret_key)
  /\ ventures["a"].stripe_webhook_secret = NULL
  /\ lastReq.kind = "hook"
  /\ lastReq.body.venture = "a"
  /\ lastReq.body.sig = "whsec_a"
  /\ lastReq.seq
  /\ lastReq.resp = 400

====
